---- MODULE Spec2Model ----
(***************************************************************************)
(* Steganography-CLI: the bit framer, the repetition code and cipher       *)
(* layer, and the block embedder/extractor of src/src/steganography.rs and *)
(* src/src/crypto.rs, as state machines.                                   *)
(*                                                                         *)
(* Numbers wider than 31 bits (u32 header lengths, usize products) are     *)
(* kept as pairs <<hi, lo>> of 16-bit halves, value hi * 2^16 + lo, so the *)
(* arithmetic of the code is done at its own width.                        *)
(***************************************************************************)
EXTENDS Integers, Sequences, FiniteSets, TLC

VARIABLES
  \* bit framer
  fr_data,     \* payload handed to convert_data_to_bits_with_header
  fr_bits,     \* the bits the extractor hands to convert_bits_to_data_with_header
  fr_result,   \* result of convert_bits_to_data_with_header
  fr_pc,       \* "start", "bits", "done"
  fr_edits     \* how many times the bits were changed on the way

VARIABLES
  \* repetition code (CryptographicEngine, private encode/decode)
  fec_rep,     \* repetition_factor of the engine
  fec_data,    \* bytes handed to apply_repetition_encoding
  fec_blob,    \* the blob handed to apply_repetition_decoding
  fec_result,  \* result of apply_repetition_decoding
  fec_pc,      \* "start", "encoded", "done"
  fec_edits    \* how many bytes of the blob were replaced on the way

VARIABLES
  \* cipher layer (CryptographicEngine, public encrypt/decrypt)
  cr_rep,      \* repetition_factor of the engine
  cr_key,      \* the 32-byte key
  cr_plain,    \* plaintext_data
  cr_nonce,    \* the nonce generate_nonce drew
  cr_blob,     \* result of encrypt_with_error_correction
  cr_result,   \* result of decrypt_with_error_correction
  cr_pc        \* "start", "encrypted", "done"

VARIABLES
  \* embedder and extractor (SteganographyEngine)
  eng_config,  \* configuration of the engine
  im_calls,    \* number of calls of hide_data_in_rgb_image on the engine so far
  im_log,      \* the calls that have returned: arguments and result of each
  im_src,      \* source_image
  im_data,     \* encrypted_data, the payload to hide
  im_quality,  \* jpeg_quality
  im_bits,     \* bit_stream
  im_index,    \* current_bit_index
  im_pos,      \* <<block_y, block_x>> of the hide loop
  im_blocks,   \* blocks the hide loop has processed
  im_stego,    \* steganographic_image being written
  im_hide,     \* result of hide_data_in_rgb_image
  ex_expected, \* expected_data_length: None or Some(n)
  ex_bits,     \* extracted_bits
  ex_pos,      \* <<block_y, block_x>> of the extract loop
  ex_result,   \* result of extract_data_from_rgb_image
  im_pc        \* "start", "failed", "hiding", "hidden", "extracting", "done"

VARIABLES
  \* capacity of an image size
  cap_width,   \* rgb_image.width()
  cap_height,  \* rgb_image.height()
  cap_bits,    \* result of calculate_capacity_bits
  cap_pc       \* "start", "done"

VARIABLES
  \* quantization tables of two qualities
  qt_quality,     \* jpeg_quality of the first call
  qt_table,       \* result of calculate_quantization_table(qt_quality)
  qt_other,       \* jpeg_quality of the second call
  qt_other_table, \* result of calculate_quantization_table(qt_other)
  qt_pc           \* "start", "table", "both"

VARIABLES
  \* forward and inverse transform of one block
  tr_block,        \* the 8x8 block of samples
  tr_scale,        \* the integer that stands for the sample value 1.0
  tr_coefficients, \* the block after apply_forward_dct
  tr_restored,     \* the coefficients after apply_inverse_dct
  tr_pc            \* "start", "forward", "done"

VARIABLES
  \* one bit forced into the coefficients of one block
  eb_quality,  \* jpeg_quality
  eb_bit,      \* bit_value
  eb_table,    \* quantization_table
  eb_block,    \* the coefficients of the block
  eb_read,     \* result of extract_bit_robustly: <<>> or <<bit>>
  eb_pc        \* "start", "embedded", "read"

VARIABLES
  \* one block of luminance written back to an image of one block
  wl_image,    \* rgb_image before the call
  wl_block,    \* luminance_block
  wl_written,  \* rgb_image after the call
  wl_pc        \* "start", "done"

VARIABLES
  \* one bit forced into and read from one block, by the library's engine
  \* (SteganographyEngine) and by the engine of the binary (StegoEngine)
  fc_config,   \* configuration of the library's engine
  fc_table,    \* quantization_table
  fc_block,    \* the coefficient block before the bit is forced
  fc_bit,      \* bit_value
  fc_writer,   \* "none", "library" or "binary": the engine that forced the bit
  fc_forced,   \* the coefficient block after the bit is forced
  fc_read,     \* <<>> or <<[library |-> bit, binary |-> bit]>>: the bit each extractor reads
  fc_pc        \* "start", "forced", "read"

VARIABLES
  \* the hide command (CommandLineHandler::handle_hide_command)
  hc_quality,   \* jpeg_quality
  hc_input,     \* what input_path holds: <<"absent" or "undecodable" or "image", width, height>>
  hc_output,    \* output_path, as its stem followed by its extension if it has one
  hc_key_file,  \* key_file_path: None or Some(path)
  hc_key_disk,  \* what the path of the key file holds: "absent", "valid" or "invalid"
  hc_data_len,  \* secret_data.len()
  hc_writable,  \* whether fs::write succeeds
  hc_written,   \* the paths the command has written
  hc_result,    \* NotRun, Ok(<<>>) or Err(kind)
  hc_pc         \* the step the command is at, or the step it returned from

framerVars == <<fr_data, fr_bits, fr_result, fr_pc, fr_edits>>
fecVars == <<fec_rep, fec_data, fec_blob, fec_result, fec_pc, fec_edits>>
cryptoVars == <<cr_rep, cr_key, cr_plain, cr_nonce, cr_blob, cr_result, cr_pc>>
hideVars == <<im_src, im_data, im_quality, im_bits, im_index, im_pos, im_blocks, im_stego, im_hide>>
extractVars == <<ex_expected, ex_bits, ex_pos, ex_result>>
callVars == <<im_calls, im_log>>
imageVars == <<eng_config, callVars, hideVars, extractVars, im_pc>>
capacityVars == <<cap_width, cap_height, cap_bits, cap_pc>>
tableVars == <<qt_quality, qt_table, qt_other, qt_other_table, qt_pc>>
dctVars == <<tr_block, tr_scale, tr_coefficients, tr_restored, tr_pc>>
embedVars == <<eb_quality, eb_bit, eb_table, eb_block, eb_read, eb_pc>>
writeVars == <<wl_image, wl_block, wl_written, wl_pc>>
forceVars == <<fc_config, fc_table, fc_block, fc_bit, fc_writer, fc_forced, fc_read, fc_pc>>
kernelVars == <<tableVars, dctVars, embedVars, writeVars, forceVars>>
cliVars == <<hc_quality, hc_input, hc_output, hc_key_file, hc_key_disk, hc_data_len,
             hc_writable, hc_written, hc_result, hc_pc>>
vars == <<framerVars, fecVars, cryptoVars, imageVars, capacityVars, kernelVars, cliVars>>
notFramer == <<fecVars, cryptoVars, imageVars, capacityVars, kernelVars, cliVars>>
notFec == <<framerVars, cryptoVars, imageVars, capacityVars, kernelVars, cliVars>>
notCrypto == <<framerVars, fecVars, imageVars, capacityVars, kernelVars, cliVars>>
notImage == <<framerVars, fecVars, cryptoVars, capacityVars, kernelVars, cliVars>>
notCapacity == <<framerVars, fecVars, cryptoVars, imageVars, kernelVars, cliVars>>
notKernel == <<framerVars, fecVars, cryptoVars, imageVars, capacityVars, cliVars>>
notCli == <<framerVars, fecVars, cryptoVars, imageVars, capacityVars, kernelVars>>
notTable == <<notKernel, dctVars, embedVars, writeVars, forceVars>>
notDct == <<notKernel, tableVars, embedVars, writeVars, forceVars>>
notEmbed == <<notKernel, tableVars, dctVars, writeVars, forceVars>>
notWrite == <<notKernel, tableVars, dctVars, embedVars, forceVars>>
notForce == <<notKernel, tableVars, dctVars, embedVars, writeVars>>

\* ------------------------------------------------------------------------
\* Bounds of the model
\* ------------------------------------------------------------------------
\* longest payload handed to the bit framer
MaxLen == 2
\* number of tampering steps applied to a framed bitstream
MaxEdits == 2
\* largest repetition factor of an engine
MaxRep == 5
\* longest input of the repetition code
MaxFecLen == 1
\* number of bytes of an encoded blob replaced on the way
MaxCorrupt == 3
\* longest plaintext handed to the cipher layer
MaxPlain == 2
\* longest payload handed to the embedder
MaxPayload == 1
\* largest image width and height of the capacity calculation
MaxDim == 64
\* number of calls made on one engine
MaxCalls == 2

\* byte values the inputs are drawn from (all are u8 values)
ByteVals == {0, 115, 255}
\* byte values of the plaintexts
PlainVals == {0, 115}
\* byte values of the payloads hidden in images
PayloadVals == {0, 115}

Half == 2^16

\* ------------------------------------------------------------------------
\* Wide numbers
\* ------------------------------------------------------------------------
\* n as u32 (`data.len() as u32`), split in two 16-bit halves
AsU32(n) == <<(n \div Half) % Half, n % Half>>

\* (w << 1) | b on a u32
ShiftInBit(w, b) == <<(w[1] * 2 + (w[2] \div (Half \div 2))) % Half, (w[2] * 2 + b) % Half>>

\* (w >> p) & 1 on a u32, p in 0..31
BitOfU32(w, p) == IF p >= 16 THEN (w[1] \div 2^(p - 16)) % 2 ELSE (w[2] \div 2^p) % 2

\* w * k as usize (64 bit: no wrap for a u32 w and a small k); hi is not reduced
WideMul(w, k) == <<w[1] * k + ((w[2] * k) \div Half), (w[2] * k) % Half>>

\* w + k as usize
WideAdd(w, k) == <<w[1] + ((w[2] + k) \div Half), (w[2] + k) % Half>>

WideLess(a, b) == a[1] < b[1] \/ (a[1] = b[1] /\ a[2] < b[2])

WideOfInt(n) == <<n \div Half, n % Half>>

\* only used where the value is known to fit
IntOfWide(w) == w[1] * Half + w[2]

\* ------------------------------------------------------------------------
\* Results and input sets
\* ------------------------------------------------------------------------
Ok(v) == [ok |-> TRUE, value |-> v]
Err(kind) == [ok |-> FALSE, error |-> kind]

\* the statements of a function body run in order: first is computed, then rest
After(first, rest) == IF first = first THEN rest ELSE rest

NotRun == [ok |-> FALSE, error |-> "not run"]

RECURSIVE SeqsUpTo(_, _)
\* all sequences over S of length at most n
SeqsUpTo(S, n) ==
  IF n = 0 THEN {<<>>}
  ELSE LET shorter == SeqsUpTo(S, n - 1)
       IN  shorter \cup {Append(s, x) : s \in {t \in shorter : Len(t) = n - 1}, x \in S}

\* ------------------------------------------------------------------------
\* Bit framer
\* ------------------------------------------------------------------------
RECURSIVE BitsOfBytes(_)
\* for each byte, bit positions 7 down to 0
BitsOfBytes(data) ==
  IF data = <<>> THEN <<>>
  ELSE [k \in 1..8 |-> (Head(data) \div 2^(8 - k)) % 2] \o BitsOfBytes(Tail(data))

\* a framer that emits the bits of each byte least-significant first
convert_data_to_bits_lsb_first(data) ==
  LET data_length == AsU32(Len(data))
      RECURSIVE Lsb(_)
      Lsb(d) == IF d = <<>> THEN <<>>
                ELSE [k \in 1..8 |-> (Head(d) \div 2^(k - 1)) % 2] \o Lsb(Tail(d))
  IN  [k \in 1..32 |-> BitOfU32(data_length, 32 - k)] \o Lsb(data)

convert_data_to_bits_with_header(data) ==
  LET data_length == AsU32(Len(data))
  IN  [k \in 1..32 |-> BitOfU32(data_length, 32 - k)] \o BitsOfBytes(data)

RECURSIVE HeaderValue(_, _, _)
\* data_length = (data_length << 1) | bit for the bits k..32 of the stream
HeaderValue(bits, k, acc) ==
  IF k > 32 \/ Len(acc) # 2 THEN acc ELSE HeaderValue(bits, k + 1, ShiftInBit(acc, bits[k]))

RECURSIVE ByteOfChunkLsb(_, _)
\* a byte assembled with the first bit of the chunk as its lowest
ByteOfChunkLsb(chunk, acc) ==
  IF chunk = <<>> THEN acc
  ELSE (Head(chunk) + 2 * ByteOfChunkLsb(Tail(chunk), acc)) % 256

RECURSIVE ByteOfChunk(_, _)
\* byte_value = (byte_value << 1) | bit on a u8
ByteOfChunk(chunk, acc) ==
  IF chunk = <<>> THEN acc
  ELSE ByteOfChunk(Tail(chunk), (((acc * 2) % 256) + Head(chunk)) % 256)

\* chunks(8) of a bit slice: the last chunk may be shorter
RECURSIVE BytesOfBits(_)
BytesOfBits(bits) ==
  IF bits = <<>> THEN <<>>
  ELSE IF Len(bits) <= 8 THEN <<ByteOfChunk(bits, 0)>>
  ELSE <<ByteOfChunk(SubSeq(bits, 1, 8), 0)>> \o BytesOfBits(SubSeq(bits, 9, Len(bits)))

\* an unframer that does not compare the bits present with the header
convert_bits_without_length_check(bit_stream) ==
  IF Len(bit_stream) < 32 THEN Err("InvalidInput")
  ELSE Ok(BytesOfBits(SubSeq(bit_stream, 33, Len(bit_stream))))

\* a framer that hands back every bit after the header
convert_bits_keep_trailing(bit_stream) ==
  IF Len(bit_stream) < 32 THEN Err("InvalidInput")
  ELSE
    LET data_length == HeaderValue(bit_stream, 1, <<0, 0>>)
        data_bits == SubSeq(bit_stream, 33, Len(bit_stream))
        expected_bit_count == WideMul(data_length, 8)
    IN  IF WideLess(WideOfInt(Len(data_bits)), expected_bit_count)
        THEN Err("InvalidInput")
        ELSE Ok(BytesOfBits(data_bits))

convert_bits_to_data_with_header(bit_stream) ==
  IF Len(bit_stream) < 32 THEN Err("InvalidInput")
  ELSE
    LET data_length == HeaderValue(bit_stream, 1, <<0, 0>>)
        data_bits == SubSeq(bit_stream, 33, Len(bit_stream))
        expected_bit_count == WideMul(data_length, 8)
    IN  IF WideLess(WideOfInt(Len(data_bits)), expected_bit_count)
        THEN Err("InvalidInput")
        ELSE Ok(BytesOfBits(SubSeq(data_bits, 1, IntOfWide(expected_bit_count))))

\* ------------------------------------------------------------------------
\* Repetition code
\* ------------------------------------------------------------------------
\* u32::to_le_bytes
ToLeBytes(w) == <<w[2] % 256, w[2] \div 256, w[1] % 256, w[1] \div 256>>

\* u32::from_le_bytes
FromLeBytes(b) == <<b[3] + 256 * b[4], b[1] + 256 * b[2]>>

\* a byte repeated n times
Repeat(byte, n) == [j \in 1..n |-> byte]

RECURSIVE RepeatEach(_, _)
RepeatEach(bytes, n) ==
  IF bytes = <<>> THEN <<>> ELSE Repeat(Head(bytes), n) \o RepeatEach(Tail(bytes), n)

\* an encoder that writes the length header most significant byte first
apply_repetition_encoding_be(original_data, repetition_factor) ==
  LET h == ToLeBytes(AsU32(Len(original_data)))
  IN  Ok(<<h[4], h[3], h[2], h[1]>> \o RepeatEach(original_data, repetition_factor))

apply_repetition_encoding(original_data, repetition_factor) ==
  After(original_data,
    Ok(ToLeBytes(AsU32(Len(original_data))) \o RepeatEach(original_data, repetition_factor)))

RECURSIVE CountOf(_, _)
\* vote_counts[v] after the counting loop
CountOf(repeated_bytes, v) ==
  IF repeated_bytes = <<>> THEN 0
  ELSE (IF Head(repeated_bytes) = v THEN 1 ELSE 0) + CountOf(Tail(repeated_bytes), v)

\* vote_counts after the counting loop: entry v + 1 is the counter of byte value v
VoteCounts(repeated_bytes) == [k \in 1..256 |-> CountOf(repeated_bytes, k - 1)] \o <<>>

\* the highest count of the table
MaxCount(vote_counts) ==
  CHOOSE c \in {vote_counts[k] : k \in 1..256} : \A k \in 1..256 : vote_counts[k] <= c

\* a selection that returns the first of several equal maxima
MaxByKeyFirst(vote_counts) ==
  LET m == MaxCount(vote_counts)
  IN  CHOOSE v \in 0..255 :
        vote_counts[v + 1] = m /\ \A w \in 0..(v - 1) : vote_counts[w + 1] # m

\* Iterator::max_by_key over vote_counts.iter().enumerate(): of several equal
\* maxima the last one is returned
MaxByKey(vote_counts) ==
  LET m == MaxCount(vote_counts)
  IN  CHOOSE v \in 0..255 :
        vote_counts[v + 1] = m /\ \A w \in (v + 1)..255 : vote_counts[w + 1] # m

\* a vote that takes the first copy
WinnerFirstCopy(repeated_bytes) ==
  IF repeated_bytes = <<>> THEN 255 ELSE repeated_bytes[1]

\* the winning byte value of one group of copies
Winner(repeated_bytes) == MaxByKey(VoteCounts(repeated_bytes))

RECURSIVE DecodeFrom(_, _, _, _)
\* the decoding loop from byte_index on; n is the header's length
DecodeFrom(encoded_data, repetition_factor, byte_index, n) ==
  IF byte_index >= n THEN Ok(<<>>)
  ELSE
    LET repetition_start == 4 + byte_index * repetition_factor
        repetition_end == repetition_start + repetition_factor
    IN  IF repetition_end > Len(encoded_data) THEN Err("InvalidInput")
        ELSE
          LET rest == DecodeFrom(encoded_data, repetition_factor, byte_index + 1, n)
              repeated_bytes == SubSeq(encoded_data, repetition_start + 1, repetition_end)
          IN  IF rest.ok THEN Ok(<<Winner(repeated_bytes)>> \o rest.value) ELSE rest

\* a decoder that only refuses input that is too short
apply_repetition_decoding_at_least(encoded_data, repetition_factor) ==
  IF Len(encoded_data) < 4 THEN Err("InvalidInput")
  ELSE
    LET original_data_length == FromLeBytes(encoded_data)
        expected_encoded_length == WideAdd(WideMul(original_data_length, repetition_factor), 4)
    IN  IF WideLess(WideOfInt(Len(encoded_data)), expected_encoded_length)
        THEN Err("InvalidInput")
        ELSE DecodeFrom(encoded_data, repetition_factor, 0, IntOfWide(original_data_length))

\* a decoder that takes the length from the number of bytes after the header
\* and does not compare it with the header
apply_repetition_decoding_by_length(encoded_data, repetition_factor) ==
  IF Len(encoded_data) < 4 THEN Err("InvalidInput")
  ELSE
    LET original_data_length ==
          IF repetition_factor = 0 THEN 0 ELSE (Len(encoded_data) - 4) \div repetition_factor
    IN  IF Len(encoded_data) # 4 + original_data_length * repetition_factor
        THEN Err("InvalidInput")
        ELSE DecodeFrom(encoded_data, repetition_factor, 0, original_data_length)

apply_repetition_decoding(encoded_data, repetition_factor) ==
  IF Len(encoded_data) < 4 THEN Err("InvalidInput")
  ELSE
    LET original_data_length == FromLeBytes(encoded_data)
        expected_encoded_length == WideAdd(WideMul(original_data_length, repetition_factor), 4)
    IN  IF WideOfInt(Len(encoded_data)) # expected_encoded_length
        THEN Err("InvalidInput")
        ELSE DecodeFrom(encoded_data, repetition_factor, 0, IntOfWide(original_data_length))

\* ------------------------------------------------------------------------
\* ChaCha20 (the chacha20 crate's ChaCha20: 32-byte key, 12-byte nonce, 32-bit
\* block counter starting at 0), on 32-bit words kept as <<hi, lo>> halves
\* ------------------------------------------------------------------------
Add32(a, b) ==
  LET lo == a[2] + b[2]
  IN  <<(a[1] + b[1] + (lo \div Half)) % Half, lo % Half>>

\* bit i of x exclusive-or bit i of y, at its place
XorBit(x, y, i) == ((((x \div 2^i) % 2) + ((y \div 2^i) % 2)) % 2) * 2^i

\* bitwise exclusive or of two numbers of at most 16 bits
XorBits(x, y) ==
  (XorBit(x, y, 0) + XorBit(x, y, 1) + XorBit(x, y, 2) + XorBit(x, y, 3))
    + (XorBit(x, y, 4) + XorBit(x, y, 5) + XorBit(x, y, 6) + XorBit(x, y, 7))
    + (XorBit(x, y, 8) + XorBit(x, y, 9) + XorBit(x, y, 10) + XorBit(x, y, 11))
    + (XorBit(x, y, 12) + XorBit(x, y, 13) + XorBit(x, y, 14) + XorBit(x, y, 15))

Xor32(a, b) == <<XorBits(a[1], b[1]), XorBits(a[2], b[2])>>

\* rotate left by n, 0 < n <= 16
Rotl32(w, n) ==
  IF n = 16 THEN <<w[2], w[1]>>
  ELSE <<((w[1] * 2^n) % Half) + (w[2] \div 2^(16 - n)),
         ((w[2] * 2^n) % Half) + (w[1] \div 2^(16 - n))>>

\* <<sum, (z xor sum) <<< n>>
XorRotate(sum, z, n) == <<sum, Rotl32(Xor32(z, sum), n)>>

\* x += y; z ^= x; z <<<= n: the new <<x, z>>
AddXorRotate(x, y, z, n) == XorRotate(Add32(x, y), z, n)

\* the four steps of a quarter round on v = <<a, b, c, d>>
PutAD(v, p) == <<p[1], v[2], v[3], p[2]>>
PutCB(v, p) == <<v[1], p[2], p[1], v[4]>>
StepAD(v, n) == PutAD(v, AddXorRotate(v[1], v[2], v[4], n))
StepCB(v, n) == PutCB(v, AddXorRotate(v[3], v[4], v[2], n))
QuarterRoundOf(v) == StepCB(StepAD(StepCB(StepAD(v, 16), 12), 8), 7)

PutWords(s, a, b, c, d, v) == [s EXCEPT ![a] = v[1], ![b] = v[2], ![c] = v[3], ![d] = v[4]]

\* the quarter round on the words a, b, c, d (1-based) of a 16-word state
QuarterRound(s, a, b, c, d) ==
  PutWords(s, a, b, c, d, QuarterRoundOf(<<s[a], s[b], s[c], s[d]>>))

\* the words of the four column rounds and the four diagonal rounds
QuarterRoundWords ==
  << <<1, 5, 9, 13>>, <<2, 6, 10, 14>>, <<3, 7, 11, 15>>, <<4, 8, 12, 16>>,
     <<1, 6, 11, 16>>, <<2, 7, 12, 13>>, <<3, 8, 9, 14>>, <<4, 5, 10, 15>> >>

RECURSIVE QuarterRounds(_, _)
RECURSIVE QuarterRoundsAfter(_, _)
\* the quarter rounds k .. 8 of a double round, one after the other
QuarterRounds(s, k) ==
  IF k > 8 THEN s
  ELSE QuarterRoundsAfter(
         QuarterRound(s, QuarterRoundWords[k][1], QuarterRoundWords[k][2],
                      QuarterRoundWords[k][3], QuarterRoundWords[k][4]), k)

\* quarter round k has given t: its 16 words are computed before the next begins
QuarterRoundsAfter(t, k) == IF Len(t) = 16 THEN QuarterRounds(t, k + 1) ELSE t

DoubleRound(s) == QuarterRounds(s, 1)

RECURSIVE Rounds(_, _)
\* n double rounds; the 16 words of s are computed before the round begins
Rounds(s, n) ==
  IF n = 0 \/ Len(s) # 16 THEN s ELSE Rounds(DoubleRound(s), n - 1)

\* the little-endian word at bytes 4i+1 .. 4i+4 of a byte string
LeWord(bytes, i) == FromLeBytes(SubSeq(bytes, 4 * i + 1, 4 * i + 4))

\* "expand 32-byte k"
Sigma == <<<<24944, 30821>>, <<13088, 25710>>, <<31074, 11570>>, <<27424, 25972>>>>

\* the 16 words before the rounds: constants, key, block counter, nonce
ChaChaInit(key, nonce, counter) ==
  Sigma \o [i \in 1..8 |-> LeWord(key, i - 1)] \o <<AsU32(counter)>>
        \o [i \in 1..3 |-> LeWord(nonce, i - 1)]

\* the 64 bytes of the words init + mixed, each word least significant first
ChaChaOutput(init, mixed) ==
  After(init, After(mixed,
    [k \in 1..64 |->
       ToLeBytes(Add32(mixed[((k - 1) \div 4) + 1], init[((k - 1) \div 4) + 1]))[((k - 1) % 4) + 1]]
      \o <<>>))

ChaChaMix(init) == ChaChaOutput(init, Rounds(init, 10))

\* the 64 keystream bytes of block `counter`
ChaChaBlock(key, nonce, counter) == ChaChaMix(ChaChaInit(key, nonce, counter))

\* bytes xor the stream, byte by byte
XorWith(bytes, stream) ==
  After(stream, [k \in 1..Len(bytes) |-> XorBits(bytes[k], stream[k])] \o <<>>)

RECURSIVE ApplyFrom(_, _, _, _)
\* the keystream applied from block `counter` on
ApplyFrom(key, nonce, bytes, counter) ==
  IF bytes = <<>> THEN <<>>
  ELSE XorWith(SubSeq(bytes, 1, IF Len(bytes) < 64 THEN Len(bytes) ELSE 64),
               ChaChaBlock(key, nonce, counter))
         \o ApplyFrom(key, nonce, SubSeq(bytes, 65, Len(bytes)), counter + 1)

\* ChaCha20::new(key, nonce) followed by apply_keystream(bytes)
ApplyKeystream(key, nonce, bytes) == ApplyFrom(key, nonce, bytes, 0)

\* ------------------------------------------------------------------------
\* Cipher layer
\* ------------------------------------------------------------------------
NONCE_SIZE == 12
ENCRYPTION_KEY_SIZE == 32
DEFAULT_REPETITION_FACTOR == 5

\* `nonce` is what generate_nonce returned
encrypt_with_error_correction(encryption_key, plaintext_data, nonce, repetition_factor) ==
  apply_repetition_encoding(nonce \o ApplyKeystream(encryption_key, nonce, plaintext_data),
                            repetition_factor)

\* a decryption that does not look at the length of the decoded data
decrypt_without_nonce_check(encryption_key, error_corrected_data, repetition_factor) ==
  LET decoded == apply_repetition_decoding(error_corrected_data, repetition_factor)
  IN  IF ~decoded.ok THEN Err("CryptoError")
      ELSE
        LET encrypted_data == decoded.value
            nonce == SubSeq(encrypted_data, 1,
                            IF Len(encrypted_data) < NONCE_SIZE THEN Len(encrypted_data)
                            ELSE NONCE_SIZE)
            ciphertext_data == SubSeq(encrypted_data, NONCE_SIZE + 1, Len(encrypted_data))
        IN  Ok(ApplyKeystream(encryption_key, nonce, ciphertext_data))

\* repetition-decode, split off the nonce, apply the keystream to the rest
decrypt_with_error_correction(encryption_key, error_corrected_data, repetition_factor) ==
  LET decoded == apply_repetition_decoding(error_corrected_data, repetition_factor)
  IN  IF ~decoded.ok THEN Err("CryptoError")
      ELSE
        LET encrypted_data == decoded.value
        IN  IF Len(encrypted_data) < NONCE_SIZE THEN Err("CryptoError")
            ELSE
              LET nonce == SubSeq(encrypted_data, 1, NONCE_SIZE)
                  ciphertext_data == SubSeq(encrypted_data, NONCE_SIZE + 1, Len(encrypted_data))
              IN  Ok(ApplyKeystream(encryption_key, nonce, ciphertext_data))

\* keys and nonces the inputs are drawn from
Keys == {[i \in 1..ENCRYPTION_KEY_SIZE |-> 0], [i \in 1..ENCRYPTION_KEY_SIZE |-> i - 1]}
Nonces == {[i \in 1..NONCE_SIZE |-> 0],
           <<0, 0, 0, 9, 0, 0, 0, 74, 0, 0, 0, 0>>,
           [i \in 1..NONCE_SIZE |-> 255]}

\* the first keystream bytes for the all-zero key and nonce, and for the key
\* 0, 1, .., 31 with the second nonce (block counter 0)
KeystreamKnownAnswers ==
  /\ SubSeq(ChaChaBlock([i \in 1..32 |-> 0], [i \in 1..12 |-> 0], 0), 1, 8)
       = <<118, 184, 224, 173, 160, 241, 61, 144>>
  /\ SubSeq(ChaChaBlock([i \in 1..32 |-> i - 1], <<0, 0, 0, 9, 0, 0, 0, 74, 0, 0, 0, 0>>, 1), 1, 8)
       = <<16, 241, 231, 228, 209, 59, 89, 21>>

\* ------------------------------------------------------------------------
\* Fixed-point numbers for the f32 arithmetic of dct.rs and steganography.rs
\* ------------------------------------------------------------------------
\* A pixel-domain or coefficient value v is the integer round(v * 2^16); a
\* cosine or normalisation factor c is the integer round(c * 2^22).
One == 2^16
CosOne == 2^22
Split == 2^11

\* value times factor, rounded to the nearest value; the product is taken
\* in halves so that no intermediate leaves 32 bits
MulFix(a, c) ==
  LET ah == a \div Split
      al == a % Split
      ch == c \div Split
      cl == c % Split
  IN ah * ch + ((ah * cl + al * ch + ((al * cl) \div Split) + (Split \div 2)) \div Split)

\* f32::round of a value: to the nearest integer, halves away from zero
Round(x) ==
  IF x >= 0 THEN (x + (One \div 2)) \div One ELSE -(((-x) + (One \div 2)) \div One)

\* a / b to the nearest integer, halves away from zero (b > 0)
RoundDiv(a, b) ==
  IF a >= 0 THEN (2 * a + b) \div (2 * b) ELSE -((2 * (-a) + b) \div (2 * b))

\* the distance between neighbouring f32 numbers at magnitude m >= 2^24 of
\* the integer that stands for the value: an f32 keeps 24 significant bits
Spacing(m) ==
  IF m < 2^25 THEN 2 ELSE IF m < 2^26 THEN 4 ELSE IF m < 2^27 THEN 8
  ELSE IF m < 2^28 THEN 16 ELSE IF m < 2^29 THEN 32 ELSE IF m < 2^30 THEN 64 ELSE 128

\* a magnitude rounded to a multiple of step, halves to the even multiple
RoundToEven(m, step) ==
  LET q == m \div step
      r == m % step
  IN  IF 2 * r > step \/ (2 * r = step /\ q % 2 = 1) THEN (q + 1) * step ELSE q * step

\* the result of an f32 operation: x rounded to 24 significant bits
F32(x) ==
  IF x >= 2^24 THEN RoundToEven(x, Spacing(x))
  ELSE IF x <= -(2^24) THEN -RoundToEven(-x, Spacing(-x))
  ELSE x

\* a * c as the f32 product
MulF32(a, c) == F32(MulFix(a, c))

Clamp(v, lo, hi) == IF v < lo THEN lo ELSE IF v > hi THEN hi ELSE v
Max(a, b) == IF a >= b THEN a ELSE b
Min(a, b) == IF a <= b THEN a ELSE b

\* the eight entries Op(0) .. Op(7) of a row, as the code's [f32; 8]
Array8(Op(_)) == <<Op(0), Op(1), Op(2), Op(3), Op(4), Op(5), Op(6), Op(7)>>

\* sum += term for the eight terms in turn, each sum an f32
Accumulate8(terms) ==
  F32(F32(F32(F32(F32(F32(F32(terms[1] + terms[2]) + terms[3]) + terms[4]) + terms[5])
    + terms[6]) + terms[7]) + terms[8])

\* ------------------------------------------------------------------------
\* DctProcessor (dct.rs)
\* ------------------------------------------------------------------------
\* cos(k * pi / 16) for k = 0 .. 8
CosSixteenths == <<4194304, 4113712, 3875032, 3487436, 2965821, 2330230, 1605091, 818268, 0>>

\* cos(k * pi / 16) for any k >= 0, by the symmetries of the cosine
CosOfSixteenths(k) ==
  LET m == k % 32
      f == IF m > 16 THEN 32 - m ELSE m
  IN IF f <= 8 THEN CosSixteenths[f + 1] ELSE -CosSixteenths[16 - f + 1]

\* DctProcessor::new: cosine_lookup_table[frequency_index][spatial_index],
\* entry [f + 1][s + 1] here
cosine_lookup_table ==
  Array8(LAMBDA frequency_index :
    Array8(LAMBDA spatial_index :
      CosOfSixteenths((2 * spatial_index + 1) * frequency_index)))

\* 1 / sqrt(2) and 0.5 / sqrt(2) as factors
InvSqrt2 == 2965821
HalfInvSqrt2 == 1482910

apply_dct_1d(input_values) ==
  Array8(LAMBDA frequency_index :
    MulF32(Accumulate8(Array8(LAMBDA spatial_index :
             MulF32(input_values[spatial_index + 1],
                    cosine_lookup_table[frequency_index + 1][spatial_index + 1]))),
           IF frequency_index = 0 THEN HalfInvSqrt2 ELSE CosOne \div 2))

\* an inverse that leaves out the 1 / sqrt(2) of the first coefficient
apply_inverse_dct_1d_plain(input_coefficients) ==
  Array8(LAMBDA spatial_index :
    MulF32(Accumulate8(Array8(LAMBDA frequency_index :
             MulF32(input_coefficients[frequency_index + 1],
                    cosine_lookup_table[frequency_index + 1][spatial_index + 1]))),
           CosOne \div 2))

apply_inverse_dct_1d(input_coefficients) ==
  Array8(LAMBDA spatial_index :
    MulF32(Accumulate8(Array8(LAMBDA frequency_index :
             MulF32(IF frequency_index = 0
                      THEN MulF32(input_coefficients[1], InvSqrt2)
                      ELSE input_coefficients[frequency_index + 1],
                    cosine_lookup_table[frequency_index + 1][spatial_index + 1]))),
           CosOne \div 2))

Column(block, column_index) == Array8(LAMBDA row_index : block[row_index + 1][column_index + 1])
Transpose(block) == Array8(LAMBDA column_index : Column(block, column_index))

\* rows first, then columns
apply_forward_dct(image_block) ==
  LET rows == Array8(LAMBDA r : apply_dct_1d(image_block[r + 1]))
      columns == Array8(LAMBDA c : apply_dct_1d(Column(rows, c)))
  IN After(rows, After(columns, Transpose(columns)))

\* columns first, then rows
apply_inverse_dct(dct_block) ==
  LET columns == Array8(LAMBDA c : apply_inverse_dct_1d(Column(dct_block, c)))
      by_rows == Transpose(columns)
  IN After(columns, After(by_rows, Array8(LAMBDA r : apply_inverse_dct_1d(by_rows[r + 1]))))

\* ------------------------------------------------------------------------
\* SteganographyEngine (steganography.rs)
\* ------------------------------------------------------------------------
\* An image is a sequence of rows, a row a sequence of pixels <<r, g, b>>;
\* pixel (x, y) of the code is img[y + 1][x + 1].
Width(img) == Len(img[1])
Height(img) == Len(img)
GetPixel(img, x, y) == img[y + 1][x + 1]

JPEG_LUMINANCE_QUANTIZATION_TABLE ==
  << <<16, 11, 10, 16, 24, 40, 51, 61>>,
     <<12, 12, 14, 19, 26, 58, 60, 55>>,
     <<14, 13, 16, 24, 40, 57, 69, 56>>,
     <<14, 17, 22, 29, 51, 87, 80, 62>>,
     <<18, 22, 37, 56, 68, 109, 103, 77>>,
     <<24, 35, 55, 64, 81, 104, 113, 92>>,
     <<49, 64, 78, 87, 103, 121, 120, 101>>,
     <<72, 92, 95, 98, 112, 100, 103, 99>> >>

\* EmbeddingConfiguration::default; strength and step are whole numbers
DefaultConfiguration ==
  [ block_size |-> 8,
    embedding_positions |->
      << <<4, 1>>, <<1, 4>>, <<3, 2>>, <<2, 3>>, <<5, 0>>, <<0, 5>>, <<3, 4>>, <<4, 3>> >>,
    embedding_strength |-> 25,
    minimum_quantization_step |-> 4 ]

\* a table whose entries are cut off instead of rounded (no + 50)
calculate_quantization_table_cut(jpeg_quality) ==
  LET quality_factor == Clamp(jpeg_quality, 1, 100)
      Entry(base) ==
        IF quality_factor < 50
          THEN (base * 5000) \div (100 * quality_factor)
          ELSE (base * (200 - 2 * quality_factor)) \div 100
  IN Array8(LAMBDA row_index :
       Array8(LAMBDA column_index :
         Clamp(Entry(JPEG_LUMINANCE_QUANTIZATION_TABLE[row_index + 1][column_index + 1]),
               1, 255)))

\* a table whose scaling factor from quality 50 on is 2 q
calculate_quantization_table_rising(jpeg_quality) ==
  LET quality_factor == Clamp(jpeg_quality, 1, 100)
      Entry(base) ==
        IF quality_factor < 50
          THEN (base * 5000 + 50 * quality_factor) \div (100 * quality_factor)
          ELSE (base * (2 * quality_factor) + 50) \div 100
  IN Array8(LAMBDA row_index :
       Array8(LAMBDA column_index :
         Clamp(Entry(JPEG_LUMINANCE_QUANTIZATION_TABLE[row_index + 1][column_index + 1]),
               1, 255)))

\* floor((base * scaling_factor + 50) / 100) with scaling_factor 5000 / q
\* below quality 50 and 200 - 2 q from 50 on, clamped to 1 .. 255; the
\* entries are whole numbers
calculate_quantization_table(jpeg_quality) ==
  LET quality_factor == Clamp(jpeg_quality, 1, 100)
      Entry(base) ==
        IF quality_factor < 50
          THEN (base * 5000 + 50 * quality_factor) \div (100 * quality_factor)
          ELSE (base * (200 - 2 * quality_factor) + 50) \div 100
  IN Array8(LAMBDA row_index :
       Array8(LAMBDA column_index :
         Clamp(Entry(JPEG_LUMINANCE_QUANTIZATION_TABLE[row_index + 1][column_index + 1]),
               1, 255)))

\* the variant that rounds the block counts down
calculate_capacity_bits_floor(width, height, block_size) ==
  (width \div block_size) * (height \div block_size)

\* blocks across times blocks down, each rounded up
calculate_capacity_bits(width, height, block_size) ==
  ((width + block_size - 1) \div block_size) * ((height + block_size - 1) \div block_size)

\* 0.299 R + 0.587 G + 0.114 B as a value
Luminance(rgb_pixel) ==
  ((299 * rgb_pixel[1] + 587 * rgb_pixel[2] + 114 * rgb_pixel[3]) * 8192 + 62) \div 125

\* entries outside block_size stay 0; pixels beyond the image take the
\* edge pixel
extract_luminance_block_from_rgb(rgb_image, block_x, block_y, configuration) ==
  Array8(LAMBDA y :
    Array8(LAMBDA x :
      IF y < configuration.block_size /\ x < configuration.block_size
        THEN Luminance(GetPixel(rgb_image,
                                Min(block_x + x, Width(rgb_image) - 1),
                                Min(block_y + y, Height(rgb_image) - 1)))
        ELSE 0))

\* a channel that is rounded and not clamped to 0 .. 255
ShiftChannelUnclamped(original, luminance_delta, tenths) ==
  Round(original * One + RoundDiv(luminance_delta * tenths, 10))

\* (original + luminance_delta * tenths / 10).round().clamp(0, 255) as u8
ShiftChannel(original, luminance_delta, tenths) ==
  Clamp(Round(original * One + RoundDiv(luminance_delta * tenths, 10)), 0, 255)

\* the pixel written for one entry of the block
WrittenPixel(original_rgb, block_value) ==
  LET new_luminance == Clamp(Round(block_value), 0, 255) * One
      luminance_delta == new_luminance - Luminance(original_rgb)
  IN << ShiftChannel(original_rgb[1], luminance_delta, 2),
        ShiftChannel(original_rgb[2], luminance_delta, 6),
        ShiftChannel(original_rgb[3], luminance_delta, 2) >>

write_luminance_block_to_rgb(rgb_image, block_x, block_y, luminance_block, configuration) ==
  [py \in 1..Height(rgb_image) |->
    [px \in 1..Width(rgb_image) |->
      LET x == (px - 1) - block_x
          y == (py - 1) - block_y
      IN IF x >= 0 /\ x < configuration.block_size /\ y >= 0 /\ y < configuration.block_size
           THEN WrittenPixel(rgb_image[py][px], luminance_block[y + 1][x + 1])
           ELSE rgb_image[py][px]]]

\* the first four (or fewer) embedding positions
PositionsToUse(configuration) ==
  SubSeq(configuration.embedding_positions, 1, Min(4, Len(configuration.embedding_positions)))

\* a strength of one step, with neither the factor 3 nor the floor
StrengthAtOneStep(position, quantization_table, configuration) ==
  Max(quantization_table[position[1] + 1][position[2] + 1],
      configuration.minimum_quantization_step) * One

\* strength written at one position: max(strength, 3 * max(step, minimum))
StrengthAt(position, quantization_table, configuration) ==
  Max(configuration.embedding_strength,
      Max(quantization_table[position[1] + 1][position[2] + 1],
          configuration.minimum_quantization_step) * 3) * One

\* an embedder that adds the strength to the coefficient instead of
\* overwriting it
RECURSIVE EmbedAtAdditive(_, _, _, _, _)
EmbedAtAdditive(dct_block, positions, bit_value, quantization_table, configuration) ==
  IF positions = <<>> THEN dct_block
  ELSE LET p == Head(positions)
           s == StrengthAt(p, quantization_table, configuration)
       IN EmbedAtAdditive(
            [dct_block EXCEPT ![p[1] + 1][p[2] + 1] = @ + (IF bit_value = 1 THEN s ELSE -s)],
            Tail(positions), bit_value, quantization_table, configuration)

RECURSIVE EmbedAt(_, _, _, _, _)
EmbedAt(dct_block, positions, bit_value, quantization_table, configuration) ==
  IF positions = <<>> THEN dct_block
  ELSE LET p == Head(positions)
           s == StrengthAt(p, quantization_table, configuration)
       IN EmbedAt([dct_block EXCEPT ![p[1] + 1][p[2] + 1] = IF bit_value = 1 THEN s ELSE -s],
                  Tail(positions), bit_value, quantization_table, configuration)

\* an embedder that forces the first position of the list alone
embed_bit_one_position(dct_block, bit_value, quantization_table, configuration) ==
  EmbedAt(dct_block, SubSeq(configuration.embedding_positions, 1, 1), bit_value,
          quantization_table, configuration)

embed_bit_robustly(dct_block, bit_value, quantization_table, configuration) ==
  EmbedAt(dct_block, PositionsToUse(configuration), bit_value, quantization_table,
          configuration)

\* votes with the thresholds included: at least 10.0 in magnitude
VotesInclusive(dct_block, positions, sign) ==
  Cardinality({i \in 1..Len(positions) :
     sign * dct_block[positions[i][1] + 1][positions[i][2] + 1] >= 10 * One})

\* votes of the positions whose coefficient passes the threshold
Votes(dct_block, positions, sign) ==
  Cardinality({i \in 1..Len(positions) :
     sign * dct_block[positions[i][1] + 1][positions[i][2] + 1] > 10 * One})

\* an extractor that answers a tie with 1 whatever position[0] holds
extract_bit_tie_one(dct_block, configuration) ==
  LET positions_to_check == PositionsToUse(configuration)
      votes_for_1 == Votes(dct_block, positions_to_check, 1)
      votes_for_0 == Votes(dct_block, positions_to_check, -1)
  IN IF votes_for_0 > votes_for_1 THEN 0 ELSE 1

extract_bit_robustly(dct_block, configuration) ==
  LET positions_to_check == PositionsToUse(configuration)
      votes_for_1 == Votes(dct_block, positions_to_check, 1)
      votes_for_0 == Votes(dct_block, positions_to_check, -1)
      primary == configuration.embedding_positions[1]
  IN IF votes_for_1 > votes_for_0 THEN 1
     ELSE IF votes_for_0 > votes_for_1 THEN 0
     ELSE IF dct_block[primary[1] + 1][primary[2] + 1] > 0 THEN 1 ELSE 0

\* Config::default() of the engine compiled into the binary (StegoEngine)
DefaultConfig ==
  [ block_size |-> 8,
    embedding_positions |->
      << <<4, 1>>, <<1, 4>>, <<3, 2>>, <<2, 3>>, <<5, 0>>, <<0, 5>>, <<3, 4>>, <<4, 3>> >>,
    embedding_strength |-> 25,
    min_quant_step |-> 4 ]

\* an embedder of the binary that forces the first four positions, as the
\* library's embedder does
embed_bit_robust_all(block, bit, quant_table, config) ==
  embed_bit_robustly(block, bit, quant_table, DefaultConfiguration)

\* StegoEngine::embed_bit_robust: only embedding_positions[0] is forced
embed_bit_robust(block, bit, quant_table, config) ==
  LET y == config.embedding_positions[1][1]
      x == config.embedding_positions[1][2]
      quant_step == Max(quant_table[y + 1][x + 1], config.min_quant_step)
      strength == Max(config.embedding_strength, quant_step * 3) * One
  IN [block EXCEPT ![y + 1][x + 1] = IF bit = 1 THEN strength ELSE -strength]

\* StegoEngine::extract_bit_robust: the sign of embedding_positions[0], threshold 1.0
extract_bit_robust(block, config) ==
  LET y == config.embedding_positions[1][1]
      x == config.embedding_positions[1][2]
      coef == block[y + 1][x + 1]
  IN IF coef > One THEN 1 ELSE 0

\* the block a hide step writes: luminance, DCT, embed, inverse DCT
EmbeddedBlock(source_image, block_x, block_y, bit_to_embed, quantization_table, configuration) ==
  LET luminance_block ==
        extract_luminance_block_from_rgb(source_image, block_x, block_y, configuration)
      dct_block == apply_forward_dct(luminance_block)
      embedded_block ==
        embed_bit_robustly(dct_block, bit_to_embed, quantization_table, configuration)
      spatial_block == apply_inverse_dct(embedded_block)
  IN After(luminance_block, After(dct_block, After(embedded_block, spatial_block)))

\* the bit an extract step reads from one block
BlockBit(steganographic_image, block_x, block_y, configuration) ==
  LET luminance_block ==
        extract_luminance_block_from_rgb(steganographic_image, block_x, block_y, configuration)
      dct_block == apply_forward_dct(luminance_block)
  IN After(luminance_block, After(dct_block, extract_bit_robustly(dct_block, configuration)))

\* ------------------------------------------------------------------------
\* The components at rest (a specification runs one component; the others
\* stay as constructed)
\* ------------------------------------------------------------------------
FramerIdle ==
  /\ fr_data = <<>> /\ fr_bits = <<>> /\ fr_result = NotRun /\ fr_pc = "idle"
  /\ fr_edits = 0

FecIdle ==
  /\ fec_rep = DEFAULT_REPETITION_FACTOR /\ fec_data = <<>> /\ fec_blob = <<>>
  /\ fec_result = NotRun /\ fec_pc = "idle" /\ fec_edits = 0

CryptoIdle ==
  /\ cr_rep = DEFAULT_REPETITION_FACTOR /\ cr_key = <<>> /\ cr_plain = <<>>
  /\ cr_nonce = <<>> /\ cr_blob = <<>> /\ cr_result = NotRun /\ cr_pc = "idle"

ImageIdle ==
  /\ eng_config = DefaultConfiguration
  /\ im_calls = 0 /\ im_log = {}
  /\ im_src = <<>> /\ im_data = <<>> /\ im_quality = 0 /\ im_bits = <<>>
  /\ im_index = 0 /\ im_pos = <<0, 0>> /\ im_blocks = 0 /\ im_stego = <<>>
  /\ im_hide = NotRun /\ ex_expected = <<>> /\ ex_bits = <<>> /\ ex_pos = <<0, 0>>
  /\ ex_result = NotRun /\ im_pc = "idle"

CapacityIdle ==
  /\ cap_width = 0 /\ cap_height = 0 /\ cap_bits = 0 /\ cap_pc = "idle"

TableIdle ==
  /\ qt_quality = 0 /\ qt_table = <<>> /\ qt_other = 0 /\ qt_other_table = <<>>
  /\ qt_pc = "idle"

DctIdle ==
  /\ tr_block = <<>> /\ tr_scale = 0 /\ tr_coefficients = <<>> /\ tr_restored = <<>>
  /\ tr_pc = "idle"

EmbedIdle ==
  /\ eb_quality = 0 /\ eb_bit = 0 /\ eb_table = <<>> /\ eb_block = <<>> /\ eb_read = <<>>
  /\ eb_pc = "idle"

WriteIdle ==
  /\ wl_image = <<>> /\ wl_block = <<>> /\ wl_written = <<>> /\ wl_pc = "idle"

ForceIdle ==
  /\ fc_config = DefaultConfiguration /\ fc_table = <<>> /\ fc_block = <<>> /\ fc_bit = 0
  /\ fc_writer = "none" /\ fc_forced = <<>> /\ fc_read = <<>> /\ fc_pc = "idle"

CliIdle ==
  /\ hc_quality = 0 /\ hc_input = <<"absent", 0, 0>> /\ hc_output = <<>> /\ hc_key_file = <<>>
  /\ hc_key_disk = "absent" /\ hc_data_len = 0 /\ hc_writable = TRUE /\ hc_written = {}
  /\ hc_result = NotRun /\ hc_pc = <<"idle">>

\* no call of a single function is under way
KernelsIdle == TableIdle /\ DctIdle /\ EmbedIdle /\ WriteIdle /\ ForceIdle

\* ------------------------------------------------------------------------
\* Bit framer: frame, carry, unframe
\* ------------------------------------------------------------------------
FramerInit ==
  /\ fr_data \in SeqsUpTo(ByteVals, MaxLen)
  /\ fr_bits = <<>>
  /\ fr_result = NotRun
  /\ fr_pc = "start"
  /\ fr_edits = 0
  /\ FecIdle /\ CryptoIdle /\ ImageIdle /\ CapacityIdle /\ KernelsIdle /\ CliIdle

\* hide side: the payload is framed
ConvertDataToBits ==
  /\ fr_pc = "start"
  /\ fr_bits' = convert_data_to_bits_with_header(fr_data)
  /\ fr_pc' = "bits"
  /\ UNCHANGED <<fr_data, fr_result, fr_edits, notFramer>>

\* the extractor may read fewer blocks than were written
TruncateBits ==
  /\ fr_pc = "bits" /\ fr_edits < MaxEdits
  /\ \E n \in 0..(Len(fr_bits) - 1) : fr_bits' = SubSeq(fr_bits, 1, n)
  /\ fr_edits' = fr_edits + 1
  /\ UNCHANGED <<fr_data, fr_result, fr_pc, notFramer>>

\* a block may be decided the other way
FlipBit ==
  /\ fr_pc = "bits" /\ fr_edits < MaxEdits
  /\ \E i \in 1..Len(fr_bits) :
       fr_bits' = [fr_bits EXCEPT ![i] = 1 - fr_bits[i]]
  /\ fr_edits' = fr_edits + 1
  /\ UNCHANGED <<fr_data, fr_result, fr_pc, notFramer>>

\* the extractor may read more blocks than were written
AppendBit ==
  /\ fr_pc = "bits" /\ fr_edits < MaxEdits
  /\ \E b \in {0, 1} : fr_bits' = Append(fr_bits, b)
  /\ fr_edits' = fr_edits + 1
  /\ UNCHANGED <<fr_data, fr_result, fr_pc, notFramer>>

\* extract side: the bits are unframed
ConvertBitsToData ==
  /\ fr_pc = "bits"
  /\ fr_result' = convert_bits_to_data_with_header(fr_bits)
  /\ fr_pc' = "done"
  /\ UNCHANGED <<fr_data, fr_bits, fr_edits, notFramer>>

FramerNext ==
  \/ ConvertDataToBits
  \/ TruncateBits
  \/ FlipBit
  \/ AppendBit
  \/ ConvertBitsToData

SpecFramer == FramerInit /\ [][FramerNext]_vars

\* ------------------------------------------------------------------------
\* Repetition code: encode, carry, decode
\* ------------------------------------------------------------------------
\* values a damaged header byte takes
HeaderVals == {0, 1, 2}

FecInit ==
  /\ fec_rep \in 0..MaxRep
  /\ fec_data \in SeqsUpTo(ByteVals, MaxFecLen)
  /\ fec_blob = <<>>
  /\ fec_result = NotRun
  /\ fec_pc = "start"
  /\ fec_edits = 0
  /\ FramerIdle /\ CryptoIdle /\ ImageIdle /\ CapacityIdle /\ KernelsIdle /\ CliIdle

RepetitionEncode ==
  /\ fec_pc = "start"
  /\ fec_blob' = apply_repetition_encoding(fec_data, fec_rep).value
  /\ fec_pc' = "encoded"
  /\ UNCHANGED <<fec_rep, fec_data, fec_result, fec_edits, notFec>>

\* one copy of a byte is replaced by another value on the way
CorruptCopy ==
  /\ fec_pc = "encoded" /\ fec_edits < MaxCorrupt
  /\ \E i \in 5..Len(fec_blob) : \E v \in ByteVals \ {fec_blob[i]} :
       fec_blob' = [fec_blob EXCEPT ![i] = v]
  /\ fec_edits' = fec_edits + 1
  /\ UNCHANGED <<fec_rep, fec_data, fec_result, fec_pc, notFec>>

\* the last byte after the header is lost on the way
DropByte ==
  /\ fec_pc = "encoded" /\ fec_edits < MaxCorrupt
  /\ Len(fec_blob) > 4
  /\ fec_blob' = SubSeq(fec_blob, 1, Len(fec_blob) - 1)
  /\ fec_edits' = fec_edits + 1
  /\ UNCHANGED <<fec_rep, fec_data, fec_result, fec_pc, notFec>>

\* a byte is added at the end on the way
AppendByte ==
  /\ fec_pc = "encoded" /\ fec_edits < MaxCorrupt
  /\ \E v \in ByteVals : fec_blob' = Append(fec_blob, v)
  /\ fec_edits' = fec_edits + 1
  /\ UNCHANGED <<fec_rep, fec_data, fec_result, fec_pc, notFec>>

\* a byte of the length header is replaced on the way; with repetition
\* factor 0 a header of n decodes to n bytes, so there only the lowest header
\* byte is replaced
EditHeader ==
  /\ fec_pc = "encoded" /\ fec_edits < MaxCorrupt
  /\ \E i \in 1..(IF fec_rep = 0 THEN 1 ELSE 4) :
       \E v \in HeaderVals \ {fec_blob[i]} :
       fec_blob' = [fec_blob EXCEPT ![i] = v]
  /\ fec_edits' = fec_edits + 1
  /\ UNCHANGED <<fec_rep, fec_data, fec_result, fec_pc, notFec>>

RepetitionDecode ==
  /\ fec_pc = "encoded"
  /\ fec_result' = apply_repetition_decoding(fec_blob, fec_rep)
  /\ fec_pc' = "done"
  /\ UNCHANGED <<fec_rep, fec_data, fec_blob, fec_edits, notFec>>

FecNext ==
  \/ RepetitionEncode
  \/ CorruptCopy
  \/ DropByte
  \/ AppendByte
  \/ EditHeader
  \/ RepetitionDecode

SpecFec == FecInit /\ [][FecNext]_vars

\* ------------------------------------------------------------------------
\* Cipher layer: encrypt, decrypt
\* ------------------------------------------------------------------------
CryptoInit ==
  /\ cr_rep \in 0..MaxRep
  /\ cr_key \in Keys
  /\ cr_plain \in SeqsUpTo(PlainVals, MaxPlain)
  /\ cr_nonce = <<>>
  /\ cr_blob = <<>>
  /\ cr_result = NotRun
  /\ cr_pc = "start"
  /\ FramerIdle /\ FecIdle /\ ImageIdle /\ CapacityIdle /\ KernelsIdle /\ CliIdle

\* generate_nonce draws the nonce
Encrypt ==
  /\ cr_pc = "start"
  /\ \E nonce \in Nonces :
       /\ cr_nonce' = nonce
       /\ cr_blob' = encrypt_with_error_correction(cr_key, cr_plain, nonce, cr_rep).value
  /\ cr_pc' = "encrypted"
  /\ UNCHANGED <<cr_rep, cr_key, cr_plain, cr_result, notCrypto>>

\* lengths of decoded data that a shorter well-formed blob carries
ShortLengths == {0, NONCE_SIZE - 1, NONCE_SIZE, NONCE_SIZE + 1}

\* the receiver is handed a well-formed blob of fewer bytes: the header and
\* the copies of the first k bytes
ShortenBlob ==
  /\ cr_pc = "encrypted"
  /\ \E k \in ShortLengths :
       /\ k < NONCE_SIZE + Len(cr_plain)
       /\ cr_blob' = ToLeBytes(AsU32(k)) \o SubSeq(cr_blob, 5, 4 + k * cr_rep)
  /\ cr_pc' = "shortened"
  /\ UNCHANGED <<cr_rep, cr_key, cr_plain, cr_nonce, cr_result, notCrypto>>

Decrypt ==
  /\ cr_pc \in {"encrypted", "shortened"}
  /\ cr_result' = decrypt_with_error_correction(cr_key, cr_blob, cr_rep)
  /\ cr_pc' = IF cr_pc = "encrypted" THEN "done" ELSE "done_shortened"
  /\ UNCHANGED <<cr_rep, cr_key, cr_plain, cr_nonce, cr_blob, notCrypto>>

CryptoNext ==
  \/ Encrypt
  \/ ShortenBlob
  \/ Decrypt

SpecCrypto == CryptoInit /\ [][CryptoNext]_vars

\* ------------------------------------------------------------------------
\* Embedder and extractor: hide_data_in_rgb_image block by block, then
\* extract_data_from_rgb_image block by block on the returned image
\* ------------------------------------------------------------------------
\* the error with its two counts exchanged
CapacityErrorSwapped(required, available) ==
  [ok |-> FALSE, error |-> "CapacityError", required |-> available, available |-> required]

\* SteganographyError::CapacityError { required, available }
CapacityError(required, available) ==
  [ok |-> FALSE, error |-> "CapacityError", required |-> required, available |-> available]

\* source images: one flat grey, one of diagonal stripes four pixels wide
FlatImage(width, height, level) ==
  [py \in 1..height |-> [px \in 1..width |-> <<level, level, level>>]]

StripedImage(width, height) ==
  [py \in 1..height |-> [px \in 1..width |->
     IF ((px - 1) + (py - 1)) % 8 < 4 THEN <<0, 0, 0>> ELSE <<255, 255, 255>>]]

\* stripes of two saturated colours
TintedImage(width, height) ==
  [py \in 1..height |-> [px \in 1..width |->
     IF ((px - 1) + (py - 1)) % 8 < 4 THEN <<10, 250, 100>> ELSE <<250, 5, 20>>]]

ImageSizes == {<<64, 32>>, <<60, 36>>}
SourceImages ==
  UNION {{FlatImage(s[1], s[2], 128), StripedImage(s[1], s[2])} : s \in ImageSizes}
    \cup {FlatImage(36, 64, 128), TintedImage(36, 64)}
Qualities == {50, 85}
None == <<>>
Some(n) == <<n>>

ImageInit ==
  /\ eng_config = DefaultConfiguration
  /\ im_calls = 1 /\ im_log = {}
  /\ im_src \in SourceImages
  /\ im_data \in SeqsUpTo(PayloadVals, MaxPayload)
  /\ im_quality \in Qualities
  /\ im_bits = <<>> /\ im_index = 0 /\ im_pos = <<0, 0>> /\ im_blocks = 0
  /\ im_stego = <<>> /\ im_hide = NotRun
  /\ ex_expected = None /\ ex_bits = <<>> /\ ex_pos = <<0, 0>> /\ ex_result = NotRun
  /\ im_pc = "start"
  /\ FramerIdle /\ FecIdle /\ CryptoIdle /\ CapacityIdle /\ KernelsIdle /\ CliIdle

\* the next block of the raster: along the row, then down
NextBlock(pos, width, block_size) ==
  IF pos[2] + block_size < width THEN <<pos[1], pos[2] + block_size>>
  ELSE <<pos[1] + block_size, 0>>

\* the start of the next row of blocks (a break leaves the inner loop only)
NextBlockRow(pos, block_size) == <<pos[1] + block_size, 0>>

\* a call of hide_data_in_rgb_image that has returned
HideCall(source_image, data_to_hide, jpeg_quality, result) ==
  [ call |-> "hide", arguments |-> <<source_image, data_to_hide, jpeg_quality>>,
    result |-> result ]

\* a call of extract_data_from_rgb_image that has returned
ExtractCall(steganographic_image, expected_data_length, result) ==
  [ call |-> "extract", arguments |-> <<steganographic_image, expected_data_length>>,
    result |-> result ]

\* a hide call that leaves the engine with a larger embedding strength
HideStartRetuning ==
  /\ im_pc = "start"
  /\ eng_config' = [eng_config EXCEPT !.embedding_strength = @ + 1]
  /\ LET bit_stream == convert_data_to_bits_with_header(im_data)
         available_capacity ==
           calculate_capacity_bits(Width(im_src), Height(im_src), eng_config.block_size)
     IN IF Len(bit_stream) > available_capacity
          THEN /\ im_hide' = CapacityError(Len(bit_stream), available_capacity)
               /\ im_log' = im_log \cup
                    {HideCall(im_src, im_data, im_quality,
                              CapacityError(Len(bit_stream), available_capacity))}
               /\ im_pc' = "failed"
               /\ UNCHANGED <<im_bits, im_stego>>
          ELSE /\ im_bits' = bit_stream
               /\ im_stego' = im_src
               /\ im_pc' = "hiding"
               /\ UNCHANGED <<im_hide, im_log>>
  /\ UNCHANGED <<im_calls, im_src, im_data, im_quality, im_index, im_pos,
                 im_blocks, extractVars, notImage>>

\* hide_data_in_rgb_image up to its loop: framing and the capacity check
HideStart ==
  /\ im_pc = "start"
  /\ LET bit_stream == convert_data_to_bits_with_header(im_data)
         available_capacity ==
           calculate_capacity_bits(Width(im_src), Height(im_src), eng_config.block_size)
     IN IF Len(bit_stream) > available_capacity
          THEN /\ im_hide' = CapacityError(Len(bit_stream), available_capacity)
               /\ im_log' = im_log \cup
                    {HideCall(im_src, im_data, im_quality,
                              CapacityError(Len(bit_stream), available_capacity))}
               /\ im_pc' = "failed"
               /\ UNCHANGED <<im_bits, im_stego>>
          ELSE /\ im_bits' = bit_stream
               /\ im_stego' = im_src
               /\ im_pc' = "hiding"
               /\ UNCHANGED <<im_hide, im_log>>
  /\ UNCHANGED <<eng_config, im_calls, im_src, im_data, im_quality, im_index, im_pos,
                 im_blocks, extractVars, notImage>>

\* a loop that goes on over the blocks after the last bit, embedding 0
HideBlockPastEnd ==
  /\ im_pc = "hiding"
  /\ im_pos[1] < Height(im_src)
  /\ LET quantization_table == calculate_quantization_table(im_quality)
         luminance_block ==
           EmbeddedBlock(im_src, im_pos[2], im_pos[1],
                         IF im_index < Len(im_bits) THEN im_bits[im_index + 1] ELSE 0,
                         quantization_table, eng_config)
     IN /\ Len(quantization_table) = 8 /\ Len(luminance_block) = 8
        /\ im_stego' = write_luminance_block_to_rgb(im_stego, im_pos[2], im_pos[1],
                          luminance_block, eng_config)
  /\ im_index' = im_index + 1
  /\ im_blocks' = im_blocks + 1
  /\ im_pos' = NextBlock(im_pos, Width(im_src), eng_config.block_size)
  /\ UNCHANGED <<eng_config, callVars, im_src, im_data, im_quality, im_bits, im_hide, im_pc,
                 extractVars, notImage>>

\* one pass of the loop body: one block takes one bit
HideBlock ==
  /\ im_pc = "hiding"
  /\ im_pos[1] < Height(im_src)
  /\ im_index < Len(im_bits)
  /\ LET quantization_table == calculate_quantization_table(im_quality)
         luminance_block ==
           EmbeddedBlock(im_src, im_pos[2], im_pos[1], im_bits[im_index + 1],
                         quantization_table, eng_config)
     IN /\ Len(quantization_table) = 8 /\ Len(luminance_block) = 8
        /\ im_stego' = write_luminance_block_to_rgb(im_stego, im_pos[2], im_pos[1],
                          luminance_block, eng_config)
  /\ im_index' = im_index + 1
  /\ im_blocks' = im_blocks + 1
  /\ im_pos' = NextBlock(im_pos, Width(im_src), eng_config.block_size)
  /\ UNCHANGED <<eng_config, callVars, im_src, im_data, im_quality, im_bits, im_hide, im_pc,
                 extractVars, notImage>>

\* the loop is left when the bits or the blocks run out
HideReturn ==
  /\ im_pc = "hiding"
  /\ im_pos[1] >= Height(im_src) \/ im_index >= Len(im_bits)
  /\ im_hide' = Ok(im_stego)
  /\ im_log' = im_log \cup {HideCall(im_src, im_data, im_quality, Ok(im_stego))}
  /\ im_pc' = "hidden"
  /\ UNCHANGED <<eng_config, im_calls, im_src, im_data, im_quality, im_bits, im_index,
                 im_pos, im_blocks, im_stego, extractVars, notImage>>

\* extract_data_from_rgb_image is called on the returned image, with or
\* without an expected length (the hidden length, one more, or none of it)
ExtractStart ==
  /\ im_pc = "hidden"
  /\ ex_expected' \in {None, Some(0), Some(Len(im_data)), Some(Len(im_data) + 1)}
  /\ ex_bits' = <<>>
  /\ ex_pos' = <<0, 0>>
  /\ im_pc' = "extracting"
  /\ UNCHANGED <<eng_config, callVars, hideVars, ex_result, notImage>>

\* the header length read from the first 32 extracted bits
HeaderLength(extracted_bits) == HeaderValue(extracted_bits, 1, <<0, 0>>)

\* one pass of the loop body: one block gives one bit
ExtractBlock ==
  /\ im_pc = "extracting"
  /\ ex_pos[1] < Height(im_hide.value)
  /\ LET steganographic_image == im_hide.value
         block_size == eng_config.block_size
         total_capacity ==
           calculate_capacity_bits(Width(steganographic_image),
                                   Height(steganographic_image), block_size)
         extracted_bits ==
           Append(ex_bits, BlockBit(steganographic_image, ex_pos[2], ex_pos[1], eng_config))
         header_length == HeaderLength(extracted_bits)
         total_bits_needed == WideAdd(WideMul(header_length, 8), 32)
     IN IF ex_expected # None /\ Len(extracted_bits) >= 32 + ex_expected[1] * 8
          THEN /\ ex_bits' = extracted_bits
               /\ ex_pos' = NextBlockRow(ex_pos, block_size)
        ELSE IF /\ Len(extracted_bits) >= 32 /\ ex_expected = None
                /\ WideLess(<<0, 0>>, header_length)
                /\ WideLess(header_length, AsU32(total_capacity \div 8))
                /\ ~WideLess(WideOfInt(Len(extracted_bits)), total_bits_needed)
          THEN /\ ex_bits' = SubSeq(extracted_bits, 1, IntOfWide(total_bits_needed))
               /\ ex_pos' = NextBlockRow(ex_pos, block_size)
        ELSE /\ ex_bits' = extracted_bits
             /\ ex_pos' = NextBlock(ex_pos, Width(steganographic_image), block_size)
  /\ UNCHANGED <<eng_config, callVars, hideVars, ex_expected, ex_result, im_pc, notImage>>

\* after the loops the bits are unframed
ExtractReturn ==
  /\ im_pc = "extracting"
  /\ ex_pos[1] >= Height(im_hide.value)
  /\ ex_result' = convert_bits_to_data_with_header(ex_bits)
  /\ im_log' = im_log \cup
       {ExtractCall(im_hide.value, ex_expected, convert_bits_to_data_with_header(ex_bits))}
  /\ im_pc' = "done"
  /\ UNCHANGED <<eng_config, im_calls, hideVars, ex_expected, ex_bits, ex_pos, notImage>>

ImageNext ==
  \/ HideStart
  \/ HideBlock
  \/ HideReturn
  \/ ExtractStart
  \/ ExtractBlock
  \/ ExtractReturn

SpecImage == ImageInit /\ [][ImageNext]_vars

\* ------------------------------------------------------------------------
\* Several calls on one engine
\* ------------------------------------------------------------------------
\* the arguments of the calls: an image that takes 40 bits, one that takes 1
CallImages == {FlatImage(64, 40, 128), FlatImage(8, 8, 128)}
CallPayloads == {<<>>, <<115>>}
CallQualities == {50}

CallsInit ==
  /\ eng_config = DefaultConfiguration
  /\ im_calls = 1 /\ im_log = {}
  /\ im_src \in CallImages
  /\ im_data \in CallPayloads
  /\ im_quality \in CallQualities
  /\ im_bits = <<>> /\ im_index = 0 /\ im_pos = <<0, 0>> /\ im_blocks = 0
  /\ im_stego = <<>> /\ im_hide = NotRun
  /\ ex_expected = None /\ ex_bits = <<>> /\ ex_pos = <<0, 0>> /\ ex_result = NotRun
  /\ im_pc = "start"
  /\ FramerIdle /\ FecIdle /\ CryptoIdle /\ CapacityIdle /\ KernelsIdle /\ CliIdle

\* the next call of hide_data_in_rgb_image on the same engine: its locals
\* start afresh, the engine is the one the earlier calls used
NextCall ==
  /\ im_pc \in {"failed", "done"}
  /\ im_calls < MaxCalls
  /\ im_calls' = im_calls + 1
  /\ im_src' \in CallImages
  /\ im_data' \in CallPayloads
  /\ im_quality' \in CallQualities
  /\ im_bits' = <<>> /\ im_index' = 0 /\ im_pos' = <<0, 0>> /\ im_blocks' = 0
  /\ im_stego' = <<>> /\ im_hide' = NotRun
  /\ ex_expected' = None /\ ex_bits' = <<>> /\ ex_pos' = <<0, 0>> /\ ex_result' = NotRun
  /\ im_pc' = "start"
  /\ UNCHANGED <<eng_config, im_log, notImage>>

CallsNext ==
  \/ HideStart
  \/ HideBlock
  \/ HideReturn
  \/ ExtractStart
  \/ ExtractBlock
  \/ ExtractReturn
  \/ NextCall

SpecCalls == CallsInit /\ [][CallsNext]_vars

\* ------------------------------------------------------------------------
\* Capacity of an image of a given size
\* ------------------------------------------------------------------------
CapacityInit ==
  /\ cap_width \in 0..MaxDim
  /\ cap_height \in 0..MaxDim
  /\ cap_bits = 0
  /\ cap_pc = "start"
  /\ FramerIdle /\ FecIdle /\ CryptoIdle /\ ImageIdle /\ KernelsIdle /\ CliIdle

CalculateCapacity ==
  /\ cap_pc = "start"
  /\ cap_bits' = calculate_capacity_bits(cap_width, cap_height, eng_config.block_size)
  /\ cap_pc' = "done"
  /\ UNCHANGED <<cap_width, cap_height, notCapacity>>

CapacityNext == CalculateCapacity

SpecCapacity == CapacityInit /\ [][CapacityNext]_vars

\* ------------------------------------------------------------------------
\* Properties of the bit framer
\* ------------------------------------------------------------------------
RECURSIVE BinaryValue(_, _, _)
\* the number whose binary digits, most significant first, are bits[from..to]
BinaryValue(bits, from, to) ==
  IF from > to THEN 0
  ELSE bits[from] * 2^(to - from) + BinaryValue(bits, from + 1, to)

\* the header of these bits announces at least 2^24 bytes
HeaderHuge(bits) == \E k \in 1..8 : bits[k] = 1

\* C3: framing a payload and unframing the untouched bits gives back the payload
Thm_C3_FramerRoundTrip ==
  (fr_pc = "done" /\ fr_edits = 0) => fr_result = Ok(fr_data)

Wit_C3_FramerRoundTrip ==
  fr_pc = "done" /\ fr_edits = 0 /\ Len(fr_data) = 2 /\ fr_data[1] # fr_data[2]
  /\ fr_result = Ok(fr_data)

\* C7: the framed stream has 32 + 8n bits, each 0 or 1; the first 32 are n in
\* binary, most significant first, then each byte most significant bit first
Thm_C7_BitstreamLayout ==
  (fr_pc = "bits" /\ fr_edits = 0) =>
    LET n == Len(fr_data)
    IN  /\ Len(fr_bits) = 32 + 8 * n
        /\ \A k \in 1..Len(fr_bits) : fr_bits[k] \in {0, 1}
        /\ ~HeaderHuge(fr_bits) /\ BinaryValue(fr_bits, 9, 32) = n
        /\ \A i \in 0..(n - 1) :
             BinaryValue(fr_bits, 32 + 8 * i + 1, 32 + 8 * i + 8) = fr_data[i + 1]

Wit_C7_BitstreamLayout ==
  fr_pc = "bits" /\ fr_edits = 0 /\ Len(fr_data) = 2 /\ fr_data[1] = 115
  /\ Len(fr_bits) = 48

\* C8: unframing fails exactly when fewer than 32 bits are present or the bits
\* after the header are fewer than 8 times the length the header announces
Thm_C8_FramerErrors ==
  fr_pc = "done" =>
    (fr_result.ok = FALSE <=>
       \/ Len(fr_bits) < 32
       \/ HeaderHuge(fr_bits)
       \/ Len(fr_bits) - 32 < 8 * BinaryValue(fr_bits, 9, 32))

Wit_C8_FramerErrors ==
  fr_pc = "done" /\ fr_result.ok = FALSE /\ Len(fr_bits) >= 40
  /\ ~HeaderHuge(fr_bits)

\* the bit streams that agree with bits on its first n bits: a later bit
\* changed, the tail cut, one or two bits appended
SameUpTo(bits, n) ==
  {[bits EXCEPT ![i] = 1 - bits[i]] : i \in (n + 1)..Len(bits)}
    \cup {SubSeq(bits, 1, m) : m \in n..Len(bits)}
    \cup {bits \o t : t \in SeqsUpTo({0, 1}, 2)}

\* C9: a successful unframing returns exactly L bytes, L the header's length,
\* and is the same for every stream with the same first 32 + 8L bits
Thm_C9_TrailingBitsIgnored ==
  (fr_pc = "done" /\ fr_result.ok) =>
    LET L == BinaryValue(fr_bits, 9, 32)
    IN  /\ Len(fr_result.value) = L
        /\ \A other \in SameUpTo(fr_bits, 32 + 8 * L) :
             convert_bits_to_data_with_header(other) = fr_result

Wit_C9_TrailingBitsIgnored ==
  fr_pc = "done" /\ fr_result.ok /\ Len(fr_result.value) >= 1
  /\ Len(fr_bits) > 32 + 8 * Len(fr_result.value)

\* ------------------------------------------------------------------------
\* Quantization tables of two qualities
\* ------------------------------------------------------------------------
\* jpeg_quality is a u8
U8_MAX == 255

TableInit ==
  /\ qt_quality \in 0..U8_MAX
  /\ qt_table = <<>> /\ qt_other = 0 /\ qt_other_table = <<>>
  /\ qt_pc = "start"
  /\ FramerIdle /\ FecIdle /\ CryptoIdle /\ ImageIdle /\ CapacityIdle /\ CliIdle /\ DctIdle /\ EmbedIdle /\ WriteIdle /\ ForceIdle

CalculateTable ==
  /\ qt_pc = "start"
  /\ qt_table' = calculate_quantization_table(qt_quality)
  /\ qt_pc' = "table"
  /\ UNCHANGED <<qt_quality, qt_other, qt_other_table, notTable>>

\* a second call, with any quality
CalculateOtherTable ==
  /\ qt_pc = "table"
  /\ \E jpeg_quality \in 0..U8_MAX :
       /\ qt_other' = jpeg_quality
       /\ qt_other_table' = calculate_quantization_table(jpeg_quality)
  /\ qt_pc' = "both"
  /\ UNCHANGED <<qt_quality, qt_table, notTable>>

TableNext ==
  \/ CalculateTable
  \/ CalculateOtherTable

SpecTable == TableInit /\ [][TableNext]_vars

\* ------------------------------------------------------------------------
\* Forward and inverse transform of one block
\* ------------------------------------------------------------------------
\* blocks of four shapes with samples between 0 and v
FlatBlock(v) == [i \in 1..8 |-> [j \in 1..8 |-> v]]
ImpulseBlock(i0, j0, v) == [i \in 1..8 |-> [j \in 1..8 |-> IF i = i0 /\ j = j0 THEN v ELSE 0]]
CheckerBlock(v) == [i \in 1..8 |-> [j \in 1..8 |-> IF (i + j) % 2 = 1 THEN v ELSE 0]]
RampBlock(v) == [i \in 1..8 |-> [j \in 1..8 |-> F32((v \div 63) * (8 * (i - 1) + (j - 1)))]]

BlocksUpTo(v) ==
  {FlatBlock(v), CheckerBlock(v), RampBlock(v)}
    \cup {ImpulseBlock(i0, j0, v) : i0 \in 1..8, j0 \in 1..8}

\* samples of the luminance range, 1.0 being One, and samples of the size
\* 2^26, 1.0 being 1
SampleRanges == {<<One, 100 * One>>, <<One, 255 * One>>, <<1, 2^26>>}

DctInit ==
  /\ \E range \in SampleRanges :
       /\ tr_scale = range[1]
       /\ tr_block \in BlocksUpTo(range[2])
  /\ tr_coefficients = <<>> /\ tr_restored = <<>>
  /\ tr_pc = "start"
  /\ FramerIdle /\ FecIdle /\ CryptoIdle /\ ImageIdle /\ CapacityIdle /\ CliIdle /\ TableIdle /\ EmbedIdle /\ WriteIdle /\ ForceIdle

ForwardDct ==
  /\ tr_pc = "start"
  /\ tr_coefficients' = apply_forward_dct(tr_block)
  /\ tr_pc' = "forward"
  /\ UNCHANGED <<tr_block, tr_scale, tr_restored, notDct>>

InverseDct ==
  /\ tr_pc = "forward"
  /\ tr_restored' = apply_inverse_dct(tr_coefficients)
  /\ tr_pc' = "done"
  /\ UNCHANGED <<tr_block, tr_scale, tr_coefficients, notDct>>

DctNext ==
  \/ ForwardDct
  \/ InverseDct

SpecDct == DctInit /\ [][DctNext]_vars

\* ------------------------------------------------------------------------
\* One bit forced into the coefficients of one block, and read back
\* ------------------------------------------------------------------------
\* coefficient values the block holds before the bit is forced
PriorCoefficients == {0, 40 * One, -40 * One}

EmbedInit ==
  /\ eb_quality \in 0..U8_MAX
  /\ eb_bit \in {0, 1}
  /\ \E v \in PriorCoefficients : eb_block = FlatBlock(v)
  /\ eb_table = <<>> /\ eb_read = <<>>
  /\ eb_pc = "start"
  /\ FramerIdle /\ FecIdle /\ CryptoIdle /\ ImageIdle /\ CapacityIdle /\ CliIdle /\ TableIdle /\ DctIdle /\ WriteIdle /\ ForceIdle

\* the table of the quality, then embed_bit_robustly on the block
EmbedBit ==
  /\ eb_pc = "start"
  /\ LET quantization_table == calculate_quantization_table(eb_quality)
     IN /\ eb_table' = quantization_table
        /\ eb_block' = embed_bit_robustly(eb_block, eb_bit, quantization_table, eng_config)
  /\ eb_pc' = "embedded"
  /\ UNCHANGED <<eb_quality, eb_bit, eb_read, notEmbed>>

ExtractBit ==
  /\ eb_pc = "embedded"
  /\ eb_read' = <<extract_bit_robustly(eb_block, eng_config)>>
  /\ eb_pc' = "read"
  /\ UNCHANGED <<eb_quality, eb_bit, eb_table, eb_block, notEmbed>>

EmbedNext ==
  \/ EmbedBit
  \/ ExtractBit

SpecEmbed == EmbedInit /\ [][EmbedNext]_vars

\* ------------------------------------------------------------------------
\* One bit forced into one block by either engine, and read by both
\* ------------------------------------------------------------------------
\* configurations of the library's engine (with_configuration)
WeakConfiguration ==
  [ block_size |-> 8,
    embedding_positions |-> << <<4, 1>>, <<1, 4>>, <<3, 2>>, <<2, 3>> >>,
    embedding_strength |-> 5,
    minimum_quantization_step |-> 4 ]

FaintConfiguration ==
  [ block_size |-> 8,
    embedding_positions |-> << <<1, 4>>, <<4, 1>> >>,
    embedding_strength |-> 0,
    minimum_quantization_step |-> 0 ]

SingleConfiguration ==
  [ block_size |-> 8,
    embedding_positions |-> << <<2, 3>> >>,
    embedding_strength |-> 10,
    minimum_quantization_step |-> 1 ]

Configurations ==
  {DefaultConfiguration, WeakConfiguration, FaintConfiguration, SingleConfiguration}

\* quantization tables: all steps 1, all steps 3, the table of quality 50
Tables == {FlatBlock(1), FlatBlock(3), calculate_quantization_table(50)}

\* coefficient values around the thresholds of the extractors
CoefficientVals == {-(10 * One) - 1, -(10 * One), 0, 10 * One, 10 * One + 1}

\* value of the coefficients that no configuration names
OtherCoefficient == 7 * One

\* the block that holds values[k] at the k-th position of the default list
\* and OtherCoefficient elsewhere
BlockOf(values) ==
  [i \in 1..8 |-> [j \in 1..8 |->
     IF \E k \in 1..4 : DefaultConfiguration.embedding_positions[k] = <<i - 1, j - 1>>
       THEN values[CHOOSE k \in 1..4 :
                     DefaultConfiguration.embedding_positions[k] = <<i - 1, j - 1>>]
       ELSE OtherCoefficient]]

ForceInit ==
  /\ fc_config \in Configurations
  /\ fc_table \in Tables
  /\ \E values \in [1..4 -> CoefficientVals] : fc_block = BlockOf(values)
  /\ fc_bit = 0 /\ fc_writer = "none" /\ fc_forced = <<>> /\ fc_read = <<>>
  /\ fc_pc = "start"
  /\ FramerIdle /\ FecIdle /\ CryptoIdle /\ ImageIdle /\ CapacityIdle /\ CliIdle
  /\ TableIdle /\ DctIdle /\ EmbedIdle /\ WriteIdle

\* SteganographyEngine::embed_bit_robustly on the block
ForceLibrary ==
  /\ fc_pc = "start"
  /\ \E bit_value \in {0, 1} :
       /\ fc_bit' = bit_value
       /\ fc_forced' = embed_bit_robustly(fc_block, bit_value, fc_table, fc_config)
  /\ fc_writer' = "library"
  /\ fc_pc' = "forced"
  /\ UNCHANGED <<fc_config, fc_table, fc_block, fc_read, notForce>>

\* StegoEngine::embed_bit_robust on the block
ForceBinary ==
  /\ fc_pc = "start"
  /\ \E bit \in {0, 1} :
       /\ fc_bit' = bit
       /\ fc_forced' = embed_bit_robust(fc_block, bit, fc_table, DefaultConfig)
  /\ fc_writer' = "binary"
  /\ fc_pc' = "forced"
  /\ UNCHANGED <<fc_config, fc_table, fc_block, fc_read, notForce>>

\* both extractors on the block as it is: forced, or still untouched
ReadBit ==
  /\ fc_pc \in {"start", "forced"}
  /\ LET block == IF fc_pc = "start" THEN fc_block ELSE fc_forced
     IN fc_read' = << [ library |-> extract_bit_robustly(block, fc_config),
                        binary |-> extract_bit_robust(block, DefaultConfig) ] >>
  /\ fc_pc' = IF fc_pc = "start" THEN "read_untouched" ELSE "read"
  /\ UNCHANGED <<fc_config, fc_table, fc_block, fc_bit, fc_writer, fc_forced, notForce>>

ForceNext ==
  \/ ForceLibrary
  \/ ForceBinary
  \/ ReadBit

SpecForce == ForceInit /\ [][ForceNext]_vars

\* ------------------------------------------------------------------------
\* The hide command: validate, load, key, encrypt, embed, save
\* ------------------------------------------------------------------------
\* the path ends with the extension
EndsWith(path, extension) == Len(path) > 0 /\ path[Len(path)] = extension

\* CommandLineHandler::get_output_file_path
get_output_file_path(output_path, jpeg_quality) ==
  IF EndsWith(output_path, ".jpg") \/ EndsWith(output_path, ".jpeg") THEN output_path
  ELSE IF jpeg_quality = 100 THEN Append(output_path, ".png")
  ELSE Append(output_path, ".jpg")

\* the path get_or_generate_encryption_key writes a new key to
KeyPath(output_path, key_file_path) ==
  IF key_file_path = None THEN Append(output_path, ".key") ELSE key_file_path[1]

\* the length of the blob encrypt_with_error_correction returns for n bytes
EncryptedLength(n) == 4 + (NONCE_SIZE + n) * DEFAULT_REPETITION_FACTOR

\* inputs of the command
CliQualities == {0, 1, 85, 100, 101}
CliInputs == {<<"absent", 0, 0>>, <<"undecodable", 0, 0>>, <<"image", 64, 64>>,
              <<"image", 512, 512>>}
CliOutputs == {<<"out">>, <<"out", ".jpg">>}
CliDataLengths == {0, 100}

CliInit ==
  /\ hc_quality \in CliQualities
  /\ hc_input \in CliInputs
  /\ hc_output \in CliOutputs
  /\ \/ hc_key_file = None /\ hc_key_disk = "absent"
     \/ hc_key_file = Some(<<"my", ".key">>) /\ hc_key_disk \in {"absent", "valid", "invalid"}
  /\ hc_data_len \in CliDataLengths
  /\ hc_writable \in BOOLEAN
  /\ hc_written = {}
  /\ hc_result = NotRun
  /\ hc_pc = <<"validate">>
  /\ FramerIdle /\ FecIdle /\ CryptoIdle /\ ImageIdle /\ CapacityIdle /\ KernelsIdle

\* the command returns the error of the step that failed
CliFail(kind) ==
  /\ hc_result' = Err(kind)
  /\ hc_pc' = <<"returned", hc_pc>>

\* the values handed to the command, which no step changes
cliInputs == <<hc_quality, hc_input, hc_output, hc_key_file, hc_key_disk, hc_data_len,
               hc_writable>>

\* Validate JPEG quality parameter
ValidateQuality ==
  /\ hc_pc = <<"validate">>
  /\ IF hc_quality < 1 \/ hc_quality > 100
       THEN CliFail("InvalidInput")
       ELSE hc_pc' = <<"load">> /\ UNCHANGED hc_result
  /\ UNCHANGED <<cliInputs, hc_written, notCli>>

\* Load input image: ImageReader::open(..)?.decode()
LoadImage ==
  /\ hc_pc = <<"load">>
  /\ IF hc_input[1] = "absent" THEN CliFail("IoError")
     ELSE IF hc_input[1] = "undecodable" THEN CliFail("ImageError")
     ELSE hc_pc' = <<"key">> /\ UNCHANGED hc_result
  /\ UNCHANGED <<cliInputs, hc_written, notCli>>

\* get_or_generate_encryption_key: an existing key file is loaded, a new key
\* is generated and saved to the key path otherwise
ObtainKey ==
  /\ hc_pc = <<"key">>
  /\ IF hc_key_file # None /\ hc_key_disk # "absent"
       THEN /\ IF hc_key_disk = "valid"
                 THEN hc_pc' = <<"encrypt">> /\ UNCHANGED hc_result
                 ELSE CliFail("Base64Error")
            /\ UNCHANGED hc_written
       ELSE IF hc_writable
         THEN /\ hc_written' = hc_written \cup {KeyPath(hc_output, hc_key_file)}
              /\ hc_pc' = <<"encrypt">> /\ UNCHANGED hc_result
         ELSE CliFail("IoError") /\ UNCHANGED hc_written
  /\ UNCHANGED <<cliInputs, notCli>>

\* encrypt_with_error_correction on the secret data
EncryptData ==
  /\ hc_pc = <<"encrypt">>
  /\ hc_pc' = <<"embed">>
  /\ UNCHANGED <<cliInputs, hc_written, hc_result, notCli>>

\* an embedding step that saves the image it has although the capacity
\* check failed
HideDataAndSave ==
  /\ hc_pc = <<"embed">>
  /\ IF 32 + 8 * EncryptedLength(hc_data_len) >
          calculate_capacity_bits(hc_input[2], hc_input[3], DefaultConfiguration.block_size)
       THEN /\ CliFail("CapacityError")
            /\ hc_written' = hc_written \cup {get_output_file_path(hc_output, hc_quality)}
       ELSE hc_pc' = <<"save">> /\ UNCHANGED <<hc_result, hc_written>>
  /\ UNCHANGED <<cliInputs, notCli>>

\* hide_data_in_rgb_image: the capacity check decides
HideData ==
  /\ hc_pc = <<"embed">>
  /\ IF 32 + 8 * EncryptedLength(hc_data_len) >
          calculate_capacity_bits(hc_input[2], hc_input[3], DefaultConfiguration.block_size)
       THEN CliFail("CapacityError")
       ELSE hc_pc' = <<"save">> /\ UNCHANGED hc_result
  /\ UNCHANGED <<cliInputs, hc_written, notCli>>

\* save_steganographic_image to get_output_file_path(..)
SaveImage ==
  /\ hc_pc = <<"save">>
  /\ IF hc_writable
       THEN /\ hc_written' = hc_written \cup {get_output_file_path(hc_output, hc_quality)}
            /\ hc_result' = Ok(<<>>)
            /\ hc_pc' = <<"returned", hc_pc>>
       ELSE CliFail("IoError") /\ UNCHANGED hc_written
  /\ UNCHANGED <<cliInputs, notCli>>

CliNext ==
  \/ ValidateQuality
  \/ LoadImage
  \/ ObtainKey
  \/ EncryptData
  \/ HideData
  \/ SaveImage

SpecCli == CliInit /\ [][CliNext]_vars

\* ------------------------------------------------------------------------
\* One block of luminance written back to an image of one block
\* ------------------------------------------------------------------------
\* colours of the images and largest values of the luminance blocks
PixelColours == {<<128, 128, 128>>, <<0, 0, 0>>, <<255, 255, 255>>, <<200, 50, 30>>,
                 <<10, 240, 100>>, <<90, 120, 60>>}
NewLuminances == {0, 51, 102, 153, 204, 255}

WriteInit ==
  /\ \E colour \in PixelColours :
       wl_image = [py \in 1..8 |-> [px \in 1..8 |-> colour]]
  /\ \E v \in NewLuminances : wl_block \in {FlatBlock(v * One), RampBlock(v * One)}
  /\ wl_written = <<>>
  /\ wl_pc = "start"
  /\ FramerIdle /\ FecIdle /\ CryptoIdle /\ ImageIdle /\ CapacityIdle /\ CliIdle
  /\ TableIdle /\ DctIdle /\ EmbedIdle /\ ForceIdle

WriteLuminanceBlock ==
  /\ wl_pc = "start"
  /\ wl_written' = write_luminance_block_to_rgb(wl_image, 0, 0, wl_block, eng_config)
  /\ wl_pc' = "done"
  /\ UNCHANGED <<wl_image, wl_block, notWrite>>

WriteNext == WriteLuminanceBlock

SpecWrite == WriteInit /\ [][WriteNext]_vars

\* ------------------------------------------------------------------------
\* Properties of the repetition code and the cipher layer
\* ------------------------------------------------------------------------
\* the copies of byte i (0-based) in a blob of the given repetition factor
CopiesOf(blob, rep, i) == SubSeq(blob, 4 + i * rep + 1, 4 + i * rep + rep)

\* how many of the copies of byte i differ from the byte that was encoded
CorruptedCopies(i) ==
  Cardinality({j \in 1..fec_rep : CopiesOf(fec_blob, fec_rep, i)[j] # fec_data[i + 1]})

\* C4: with the header intact and, for each byte, at most floor((r-1)/2) of its
\* r copies replaced, decoding returns the bytes that were encoded (r >= 1)
Thm_C4_MajorityCorrects ==
  (/\ fec_pc = "done" /\ fec_rep >= 1
   /\ Len(fec_blob) = 4 + Len(fec_data) * fec_rep
   /\ SubSeq(fec_blob, 1, 4) = ToLeBytes(AsU32(Len(fec_data)))
   /\ \A i \in 0..(Len(fec_data) - 1) : CorruptedCopies(i) <= (fec_rep - 1) \div 2)
    => fec_result = Ok(fec_data)

Wit_C4_MajorityCorrects ==
  /\ fec_pc = "done" /\ fec_rep = 5 /\ Len(fec_data) >= 1
  /\ Len(fec_blob) = 4 + Len(fec_data) * fec_rep
  /\ CorruptedCopies(0) = 2
  /\ CopiesOf(fec_blob, fec_rep, 0)[1] # fec_data[1]
  /\ fec_result = Ok(fec_data)

\* the length header of the blob, as its low and high 16 bits
HeaderLow(blob) == blob[1] + 256 * blob[2]
HeaderHigh(blob) == blob[3] + 256 * blob[4]

\* the bytes after the header are not (header length) * repetition_factor many
LengthMismatch(blob, rep) ==
  IF rep = 0 THEN Len(blob) - 4 # 0
  ELSE HeaderHigh(blob) > 0 \/ HeaderLow(blob) * rep # Len(blob) - 4

\* C11: when the number of bytes after the 4-byte header differs from (header
\* length) * repetition_factor, too few or too many, apply_repetition_decoding
\* returns an error and no decoded bytes
Thm_C11_LengthMismatchFails ==
  (fec_pc = "done" /\ Len(fec_blob) >= 4 /\ LengthMismatch(fec_blob, fec_rep))
    => fec_result = Err("InvalidInput")

Wit_C11_LengthMismatchFails ==
  /\ fec_pc = "done" /\ fec_rep = 2 /\ Len(fec_blob) = 7
  /\ HeaderLow(fec_blob) = 1 /\ HeaderHigh(fec_blob) = 0
  /\ ~fec_result.ok

\* the byte values that occur most often among the copies
TiedValues(copies) ==
  LET present == {copies[j] : j \in 1..Len(copies)}
  IN  {v \in present : \A w \in present : CountOf(copies, w) <= CountOf(copies, v)}

\* the lowest and the highest value of a non-empty set of byte values
LowestOf(values) == CHOOSE v \in values : \A w \in values : v <= w
HighestOf(values) == CHOOSE v \in values : \A w \in values : w <= v

\* byte i was decoded from copies of which several values share the highest count
DecodedFromTie(i) ==
  /\ fec_pc = "done" /\ fec_rep >= 1 /\ fec_result.ok
  /\ i < Len(fec_result.value)
  /\ Cardinality(TiedValues(CopiesOf(fec_blob, fec_rep, i))) >= 2

\* C12 as stated: when several byte values share the highest count among the
\* copies of a byte position, the lowest of them is emitted
Orig_C12_TieLowest ==
  \A i \in 0..(MaxFecLen + MaxCorrupt) :
    DecodedFromTie(i) =>
      fec_result.value[i + 1] = LowestOf(TiedValues(CopiesOf(fec_blob, fec_rep, i)))

\* C12 amended: when several byte values share the highest count among the
\* copies of a byte position, the highest of them is emitted (max_by_key
\* returns the last maximum)
Thm_C12_TieHighest ==
  \A i \in 0..(MaxFecLen + MaxCorrupt) :
    DecodedFromTie(i) =>
      fec_result.value[i + 1] = HighestOf(TiedValues(CopiesOf(fec_blob, fec_rep, i)))

Wit_C12_TieHighest ==
  /\ DecodedFromTie(0) /\ fec_rep = 2
  /\ CopiesOf(fec_blob, fec_rep, 0) = <<0, 115>>
  /\ fec_result.value[1] = 115

\* C2: decrypting what encrypt_with_error_correction returned, under the same
\* key, succeeds and returns exactly the plaintext, whatever nonce was drawn
Orig_C2_DecryptInvertsEncrypt ==
  cr_pc = "done" => cr_result = Ok(cr_plain)

\* C13: the blobs here decode to as many bytes as their header says; when
\* that is fewer than 12, decrypt_with_error_correction returns an error and
\* no plaintext; otherwise the plaintext has 12 bytes fewer, and it is the
\* start of the sender's plaintext, so the first 12 bytes were the nonce
Thm_C13_NonceLength ==
  (cr_pc \in {"done", "done_shortened"}) =>
    LET decoded_length == HeaderLow(cr_blob)
    IN  IF decoded_length < NONCE_SIZE
          THEN cr_result = Err("CryptoError")
          ELSE /\ cr_result.ok
               /\ Len(cr_result.value) = decoded_length - NONCE_SIZE
               /\ cr_rep >= 1 =>
                    cr_result.value = SubSeq(cr_plain, 1, decoded_length - NONCE_SIZE)

Wit_C13_NonceLength ==
  /\ cr_pc = "done_shortened" /\ cr_rep = 3
  /\ HeaderLow(cr_blob) = NONCE_SIZE - 1 /\ Len(cr_blob) = 4 + 3 * (NONCE_SIZE - 1)
  /\ ~cr_result.ok

\* C10: the encoded blob has 4 + n*r bytes, n the length of nonce || ciphertext
\* = 12 + m; its first 4 bytes are n, least significant first, and the r bytes
\* of group i all equal byte i of nonce || ciphertext
Thm_C10_BlobLayout ==
  cr_pc = "encrypted" =>
    LET input == cr_nonce \o ApplyKeystream(cr_key, cr_nonce, cr_plain)
        n == Len(input)
    IN  /\ n = NONCE_SIZE + Len(cr_plain)
        /\ Len(cr_blob) = 4 + (NONCE_SIZE + Len(cr_plain)) * cr_rep
        /\ cr_blob[1] + 256 * cr_blob[2] = n /\ cr_blob[3] = 0 /\ cr_blob[4] = 0
        /\ \A i \in 0..(n - 1) : \A j \in 1..cr_rep :
             cr_blob[4 + i * cr_rep + j] = input[i + 1]

Wit_C10_BlobLayout ==
  /\ cr_pc = "encrypted" /\ cr_rep = 3 /\ Len(cr_plain) = 2
  /\ Len(cr_blob) = 46 /\ cr_blob[1] = 14

\* ------------------------------------------------------------------------
\* Embedder, extractor and capacity properties
\* ------------------------------------------------------------------------
\* block origins of an image: one per started block, along and down
BlockOrigins(width, height) ==
  {p \in (0..(width - 1)) \X (0..(height - 1)) : p[1] % 8 = 0 /\ p[2] % 8 = 0}

\* the smallest k with 8 k >= n
CeilEighth(n) == CHOOSE k \in 0..n : 8 * k >= n /\ (k = 0 \/ 8 * (k - 1) < n)

\* C1 (as stated): once a hide that succeeded is followed by an extract of
\* the returned image, the extract returns exactly the hidden payload, for
\* every source image and payload that fits.
Orig_C1_HideExtractRoundTrip ==
  (im_pc = "done" /\ im_hide.ok) => ex_result = Ok(im_data)

\* the number of bits extraction needs: 32 + 8 * n, n the expected length or,
\* without one, the length the first 32 collected bits report; 0 while that is
\* not known yet
BitsNeeded ==
  IF ex_expected # None THEN 32 + 8 * ex_expected[1]
  ELSE IF Len(ex_bits) < 32 \/ HeaderLength(ex_bits)[1] > 0 THEN 0
  ELSE 32 + 8 * HeaderLength(ex_bits)[2]

\* the collected bits have reached the number needed
EnoughBits == BitsNeeded > 0 /\ Len(ex_bits) >= BitsNeeded

\* C14: once the collected bits reach 32 + 8 * n, extraction reads no further
\* block, and exactly 32 + 8 * n bits are handed to the bit framer
Orig_C14_ExtractionStops ==
  [][(im_pc = "extracting" /\ EnoughBits) =>
       (ex_bits' = ex_bits /\ ex_pos' = ex_pos /\ Len(ex_bits) = BitsNeeded)]_vars

\* the raster index of the block that pixel (px, py) lies in
BlockIndexOf(px, py, width) == (py \div 8) * CeilEighth(width) + (px \div 8)

\* every pixel of a block of raster index >= N is as in the source image
BlocksAfterBitsUntouched ==
  \A py \in 0..(Height(im_src) - 1) : \A px \in 0..(Width(im_src) - 1) :
    BlockIndexOf(px, py, Width(im_src)) >= Len(im_bits) =>
      GetPixel(im_hide.value, px, py) = GetPixel(im_src, px, py)

\* C15: when hide_data_in_rgb_image returns an image for a bitstream of N
\* bits, every pixel of a block of raster index >= N is the same in the
\* returned image and the source image, and no step changes the source image
Thm_C15_BlocksAfterBitsUntouched ==
  [][/\ im_pc # "idle" => im_src' = im_src
     /\ (im_pc = "hiding" /\ im_pc' = "hidden") => BlocksAfterBitsUntouched']_vars

Wit_C15_BlocksAfterBitsUntouched ==
  /\ im_pc = "hidden" /\ im_hide.ok
  /\ Width(im_src) = 60 /\ Len(im_bits) = 32 /\ im_blocks = 32
  /\ GetPixel(im_hide.value, 1, 1) # GetPixel(im_src, 1, 1)
  /\ GetPixel(im_hide.value, 1, 33) = GetPixel(im_src, 1, 33)

\* the quality the table is calculated for: jpeg_quality, or the nearest of
\* 1 and 100
NearestQuality(q) == IF q < 1 THEN 1 ELSE IF q > 100 THEN 100 ELSE q

\* entry = clamp(floor(numerator / denominator), 1, 255), numerator over
\* denominator being (base * scale + 50) / 100 for the scale of quality q
IsScaledEntry(entry, base, q) ==
  LET numerator == IF q < 50 THEN base * 5000 + 50 * q ELSE base * (200 - 2 * q) + 50
      denominator == IF q < 50 THEN 100 * q ELSE 100
  IN  \/ entry = 1 /\ numerator < 2 * denominator
      \/ entry = 255 /\ numerator >= 255 * denominator
      \/ /\ 1 <= entry /\ entry <= 255
         /\ entry * denominator <= numerator /\ numerator < (entry + 1) * denominator

\* C16: every entry of calculate_quantization_table(q) is
\* clamp(floor((base * scale + 50) / 100), 1, 255), scale = 5000 / q below
\* quality 50 and 200 - 2 q from 50 on, so it lies in 1..255; a quality
\* outside 1..100 counts as the nearest of 1 and 100
Thm_C16_TableFormula ==
  (qt_pc \in {"table", "both"}) =>
    \A i \in 1..8 : \A j \in 1..8 :
      /\ qt_table[i][j] \in 1..255
      /\ IsScaledEntry(qt_table[i][j], JPEG_LUMINANCE_QUANTIZATION_TABLE[i][j],
                       NearestQuality(qt_quality))

Wit_C16_TableFormula ==
  /\ qt_pc = "table" /\ qt_quality = 37
  /\ qt_table[1][1] = 22 /\ qt_table[8][8] = 134

\* C17: for qualities q1 < q2 in 1..100 every step of the table of q2 is at
\* most the step of the table of q1 at the same position
Thm_C17_TableMonotone ==
  (qt_pc = "both" /\ 1 <= qt_quality /\ qt_quality < qt_other /\ qt_other <= 100) =>
    \A i \in 1..8 : \A j \in 1..8 : qt_other_table[i][j] <= qt_table[i][j]

Wit_C17_TableMonotone ==
  /\ qt_pc = "both" /\ qt_quality = 49 /\ qt_other = 50
  /\ qt_other_table[7][6] < qt_table[7][6]

\* the distance of two numbers
Distance(a, b) == IF a >= b THEN a - b ELSE b - a

\* every cell of the restored block is less than 1.0 away from the sample
RestoredWithinOne ==
  \A i \in 1..8 : \A j \in 1..8 :
    Distance(tr_restored[i][j], tr_block[i][j]) < tr_scale

\* C18 as stated: for every 8x8 block of f32 samples, apply_forward_dct
\* followed by apply_inverse_dct gives a block of which every cell is less
\* than 1.0 away from the original
Orig_C18_DctRoundTrip ==
  tr_pc = "done" => RestoredWithinOne

\* the samples are of the luminance range 0 .. 255
LuminanceSamples ==
  /\ tr_scale = One
  /\ \A i \in 1..8 : \A j \in 1..8 : 0 <= tr_block[i][j] /\ tr_block[i][j] <= 255 * One

\* C18 amended: for every 8x8 block of samples between 0 and 255,
\* apply_forward_dct followed by apply_inverse_dct gives a block of which
\* every cell is less than 1.0 away from the original
Thm_C18_DctRoundTripLuminance ==
  (tr_pc = "done" /\ LuminanceSamples) => RestoredWithinOne

Wit_C18_DctRoundTripLuminance ==
  /\ tr_pc = "done" /\ LuminanceSamples
  /\ tr_block = CheckerBlock(255 * One)
  /\ Distance(tr_coefficients[1][1], 1020 * One) < One
  /\ RestoredWithinOne

\* a coefficient rounded to the nearest multiple of a step, as a compressor
\* of that step leaves it
Requantized(value, step) == RoundDiv(value, step * One) * (step * One)

\* the block with every coefficient rounded to the step of its position
RequantizedBlock(block, quantization_table) ==
  [i \in 1..8 |-> [j \in 1..8 |-> Requantized(block[i][j], quantization_table[i][j])]]

\* the vote a coefficient casts in extract_bit_robustly: 1, 0 or none (-1)
VoteOf(value) == IF value > 10 * One THEN 1 ELSE IF value < -(10 * One) THEN 0 ELSE -1

\* C19: for every quality in 1..100, each of the four coefficients that
\* embed_bit_robustly forced, rounded to the nearest multiple of the step of
\* its position in the table of that quality, still casts the vote of the
\* embedded bit, and extract_bit_robustly reads the bit from the rounded block
Thm_C19_ForcedCoefficientsSurvive ==
  (eb_pc \in {"embedded", "read"} /\ 1 <= eb_quality /\ eb_quality <= 100) =>
    /\ \A k \in 1..4 :
         LET position == eng_config.embedding_positions[k]
         IN VoteOf(Requantized(eb_block[position[1] + 1][position[2] + 1],
                               eb_table[position[1] + 1][position[2] + 1])) = eb_bit
    /\ extract_bit_robustly(RequantizedBlock(eb_block, eb_table), eng_config) = eb_bit
    /\ eb_pc = "read" => eb_read = <<eb_bit>>

Wit_C19_ForcedCoefficientsSurvive ==
  /\ eb_pc = "embedded" /\ eb_quality = 90 /\ eb_bit = 0
  /\ eb_table[5][2] = 4
  /\ eb_block[5][2] = -(25 * One)
  /\ Requantized(eb_block[5][2], eb_table[5][2]) = -(24 * One)

\* new_Y of a block entry: the entry rounded and clamped to 0 .. 255
NewLuminance(block_value) == Clamp(Round(block_value), 0, 255) * One

\* a channel before it is clamped: original + luminance_delta * tenths / 10, rounded
UnclampedChannel(original, luminance_delta, tenths) ==
  Round(original * One + RoundDiv(luminance_delta * tenths, 10))

\* no channel of the pixel written for the entry was clamped
NoChannelClamped(original_rgb, block_value) ==
  LET luminance_delta == NewLuminance(block_value) - Luminance(original_rgb)
  IN  /\ UnclampedChannel(original_rgb[1], luminance_delta, 2) \in 0..255
      /\ UnclampedChannel(original_rgb[2], luminance_delta, 6) \in 0..255
      /\ UnclampedChannel(original_rgb[3], luminance_delta, 2) \in 0..255

\* C20: for every written pixel of which no channel is clamped, the luminance
\* of the pixel after write_luminance_block_to_rgb is new_Y, up to the
\* rounding of the three channels (at most one half in all)
Orig_C20_WrittenLuminance ==
  wl_pc = "done" =>
    \A py \in 1..8 : \A px \in 1..8 :
      NoChannelClamped(wl_image[py][px], wl_block[py][px]) =>
        Distance(Luminance(wl_written[py][px]), NewLuminance(wl_block[py][px])) <= One \div 2

\* C5: hide_data_in_rgb_image fails exactly when the 32 + 8 n framed bits
\* exceed the number of blocks; the CapacityError then carries exactly that
\* bit count as required and the block count as available, no image is
\* returned and no block has been processed.
Thm_C5_CapacityError ==
  LET required == 32 + 8 * Len(im_data)
      available == Cardinality(BlockOrigins(Width(im_src), Height(im_src)))
  IN (im_pc \notin {"idle", "start"}) =>
       IF required > available
         THEN /\ im_pc = "failed"
              /\ ~im_hide.ok
              /\ im_hide.error = "CapacityError"
              /\ im_hide.required = required
              /\ im_hide.available = available
              /\ im_stego = <<>> /\ im_blocks = 0 /\ im_index = 0 /\ im_bits = <<>>
         ELSE im_pc # "failed"

Wit_C5_CapacityError ==
  /\ im_pc = "failed" /\ Len(im_data) = 1
  /\ im_hide.error = "CapacityError" /\ im_hide.required = 40 /\ im_hide.available = 32

\* C6: with block size 8 the capacity of a width x height image is
\* ceil(width / 8) * ceil(height / 8), so 64 for a 64 x 64 image.
Thm_C6_CapacityFormula ==
  cap_pc = "done" =>
    /\ cap_bits = CeilEighth(cap_width) * CeilEighth(cap_height)
    /\ (cap_width = 64 /\ cap_height = 64) => cap_bits = 64

Wit_C6_CapacityFormula ==
  cap_pc = "done" /\ cap_width = 64 /\ cap_height = 64 /\ cap_bits = 64

\* ------------------------------------------------------------------------
\* Properties of one bit forced into one block and read back
\* ------------------------------------------------------------------------
\* the coefficient of a block at the k-th position of the default list
AtPosition(block, k) ==
  block[DefaultConfiguration.embedding_positions[k][1] + 1]
       [DefaultConfiguration.embedding_positions[k][2] + 1]

UsedPositions == 1..(IF Len(fc_config.embedding_positions) < 4
                       THEN Len(fc_config.embedding_positions) ELSE 4)

\* the coefficient of a block at the k-th position of the engine's list
AtListed(block, k) ==
  block[fc_config.embedding_positions[k][1] + 1][fc_config.embedding_positions[k][2] + 1]

\* the step of the table at the k-th position of the engine's list
StepAtListed(k) ==
  fc_table[fc_config.embedding_positions[k][1] + 1][fc_config.embedding_positions[k][2] + 1]

\* no position the engine uses names the coefficient (i, j)
NotUsed(i, j) ==
  \A k \in UsedPositions : fc_config.embedding_positions[k] # <<i - 1, j - 1>>

\* the block after embed_bit_robustly holds sign * strengths[k] at the used
\* positions and the coefficients of the block before it everywhere else
ForcedTo(strengths) ==
  /\ \A k \in UsedPositions :
       AtListed(fc_forced, k) = IF fc_bit = 1 THEN strengths[k] ELSE -strengths[k]
  /\ \A i \in 1..8 : \A j \in 1..8 : NotUsed(i, j) => fc_forced[i][j] = fc_block[i][j]

\* C22: embed_bit_robustly overwrites each of the first 4 ranked coefficients
\* with +s for bit 1 and -s for bit 0, s = max(configured strength, 3 * the
\* step of the table at the position), for every configuration and table,
\* whatever the coefficient was before, and changes no other coefficient
Orig_C22_ForcedStrength ==
  (fc_pc = "forced" /\ fc_writer = "library") =>
    ForcedTo([k \in UsedPositions |->
                (IF fc_config.embedding_strength > 3 * StepAtListed(k)
                   THEN fc_config.embedding_strength ELSE 3 * StepAtListed(k)) * One])

\* C22 as it holds: s = max(configured strength, 3 * max(step of the table at
\* the position, minimum_quantization_step)), at the first 4 positions of the
\* list or at all of a shorter list
Thm_C22_ForcedStrengthFloored ==
  (fc_pc = "forced" /\ fc_writer = "library") =>
    ForcedTo([k \in UsedPositions |->
                LET step == IF StepAtListed(k) > fc_config.minimum_quantization_step
                              THEN StepAtListed(k) ELSE fc_config.minimum_quantization_step
                IN (IF fc_config.embedding_strength > 3 * step
                      THEN fc_config.embedding_strength ELSE 3 * step) * One])

\* strength 5, minimum step 4, table step 1: bit 0 is written as -12, not -5,
\* over a coefficient that was 10.00002
Wit_C22_ForcedStrengthFloored ==
  /\ fc_pc = "forced" /\ fc_writer = "library" /\ fc_config = WeakConfiguration
  /\ fc_table = FlatBlock(1) /\ fc_bit = 0
  /\ AtListed(fc_block, 1) = 10 * One + 1
  /\ AtListed(fc_forced, 1) = -(12 * One)

\* the block the extractors read in a state where they have read
BlockRead == IF fc_pc = "read_untouched" THEN fc_block ELSE fc_forced

\* number of used positions whose coefficient casts the vote
VotesCast(vote) ==
  Cardinality({k \in UsedPositions : VoteOf(AtListed(BlockRead, k)) = vote})

\* C23: in extract_bit_robustly each read position votes 1 if its coefficient
\* is above 10.0, 0 if it is below -10.0 and abstains otherwise (at exactly
\* +10 and -10 as well); when the votes for one bit strictly outnumber the
\* votes for the other, that bit is returned
Thm_C23_MajorityVote ==
  (fc_pc \in {"read", "read_untouched"}) =>
    /\ VotesCast(1) > VotesCast(0) => fc_read[1].library = 1
    /\ VotesCast(0) > VotesCast(1) => fc_read[1].library = 0

\* two positions at exactly +10 and -10 abstain, one votes 1, one abstains at
\* 0: a single vote decides
Wit_C23_MajorityVote ==
  /\ fc_pc = "read_untouched" /\ fc_config = DefaultConfiguration
  /\ AtListed(fc_block, 1) = -(10 * One) /\ AtListed(fc_block, 2) = 10 * One
  /\ AtListed(fc_block, 3) = 10 * One + 1 /\ AtListed(fc_block, 4) = 0
  /\ VotesCast(1) = 1 /\ VotesCast(0) = 0
  /\ fc_read[1].library = 1

\* C24: in extract_bit_robustly, when the votes for 1 and for 0 are equal
\* (all positions abstaining included), the bit returned is 1 if the
\* coefficient at position[0] is above 0 and 0 otherwise, so 0 for exactly 0
Thm_C24_TieFallsBack ==
  (fc_pc \in {"read", "read_untouched"} /\ VotesCast(1) = VotesCast(0)) =>
    fc_read[1].library = IF AtListed(BlockRead, 1) > 0 THEN 1 ELSE 0

\* one vote each way with position[0] at exactly 0, which reads 0
Wit_C24_TieFallsBack ==
  /\ fc_pc = "read_untouched" /\ fc_config = DefaultConfiguration
  /\ AtListed(fc_block, 1) = 0
  /\ VotesCast(1) = 1 /\ VotesCast(0) = 1
  /\ fc_read[1].library = 0

\* C29: for every configuration with at least one position, every table with
\* steps of at least 1, every content of the block before and each bit b,
\* extract_bit_robustly directly after embed_bit_robustly(b) returns b, by
\* the fallback to position[0] when the strength is at or below the threshold
Thm_C29_EmbedThenExtract ==
  (fc_pc = "read" /\ fc_writer = "library") => fc_read[1].library = fc_bit

\* strength 0 and minimum step 0 over a table of steps 1: bit 1 is written as
\* 3.0, every used position abstains, and position[0] decides
Wit_C29_EmbedThenExtract ==
  /\ fc_pc = "read" /\ fc_writer = "library" /\ fc_config = FaintConfiguration
  /\ fc_table = FlatBlock(1) /\ fc_bit = 1
  /\ AtListed(fc_block, 1) = -(10 * One) - 1
  /\ AtListed(fc_forced, 1) = 3 * One
  /\ VotesCast(1) = 0 /\ VotesCast(0) = 0
  /\ fc_read[1].library = 1

\* ------------------------------------------------------------------------
\* Properties of the order of the blocks
\* ------------------------------------------------------------------------
\* the origin <<y, x>> of the block of raster index i in an image of the width
RasterOrigin(i, width) == <<8 * (i \div CeilEighth(width)), 8 * (i % CeilEighth(width))>>

\* C25: during hide_data_in_rgb_image bit i of the bitstream goes into the
\* block of column i mod ceil(W/8) and row i div ceil(W/8), one bit per block,
\* and extract_data_from_rgb_image reads bit i from that same block, for
\* widths and heights that are no multiple of 8 as well
Orig_C25_RasterOrder ==
  [][/\ (im_pc = "hiding" /\ im_pos' # im_pos) =>
          /\ im_pos = RasterOrigin(im_index, Width(im_src))
          /\ im_index' = im_index + 1
          /\ im_blocks' = im_blocks + 1
     /\ (im_pc = "extracting" /\ ex_pos' # ex_pos /\ Len(ex_bits) < Len(im_bits)) =>
          ex_pos = RasterOrigin(Len(ex_bits), Width(im_src))]_vars

\* the half of C25 about hide_data_in_rgb_image
HideInRasterOrder ==
  [][(im_pc = "hiding" /\ im_pos' # im_pos) =>
          /\ im_pos = RasterOrigin(im_index, Width(im_src))
          /\ im_index' = im_index + 1
          /\ im_blocks' = im_blocks + 1]_vars

\* ------------------------------------------------------------------------
\* Properties of the pixels hide_data_in_rgb_image writes
\* ------------------------------------------------------------------------
\* the image has the width and the height of the source image in every row
SameDimensions(image) ==
  /\ Len(image) = Height(im_src)
  /\ \A py \in 1..Len(image) : Len(image[py]) = Width(im_src)

\* every channel of every pixel of the image is a u8 value
ChannelsInRange(image) ==
  \A py \in 1..Len(image) : \A px \in 1..Len(image[py]) :
    \A c \in 1..3 : image[py][px][c] \in 0..U8_MAX

\* C26: the image hide_data_in_rgb_image returns has the width and height of
\* the source; each pass writes only pixels of its own block that lie inside
\* the image (x < width, y < height), also for a partial block at the right or
\* bottom edge; no pixel is written a second time (the pixels of the block of
\* a pass are still those of the source); every channel written is in 0 .. 255
Thm_C26_WrittenPixels ==
  [][/\ (im_pc = "hiding" /\ im_index' # im_index) =>
          /\ SameDimensions(im_stego')
          /\ ChannelsInRange(im_stego')
          /\ \A py \in 0..(Height(im_src) - 1) : \A px \in 0..(Width(im_src) - 1) :
               IF BlockIndexOf(px, py, Width(im_src)) = im_index
                 THEN GetPixel(im_stego, px, py) = GetPixel(im_src, px, py)
                 ELSE GetPixel(im_stego', px, py) = GetPixel(im_stego, px, py)
     /\ (im_pc = "hiding" /\ im_pc' = "hidden") =>
          /\ im_hide'.ok
          /\ SameDimensions(im_hide'.value)
          /\ ChannelsInRange(im_hide'.value)]_vars

\* a 36 x 64 image of saturated colours with 40 bits: the blocks of the last
\* column are 4 pixels wide, the pixel (35, 63) of the last of them was
\* written, and a written green channel sits at the limit 255
Wit_C26_WrittenPixels ==
  /\ im_pc = "hidden" /\ im_hide.ok
  /\ Width(im_src) = 36 /\ Height(im_src) = 64 /\ Len(im_bits) = 40
  /\ Width(im_hide.value) = 36 /\ Height(im_hide.value) = 64
  /\ GetPixel(im_hide.value, 35, 63) # GetPixel(im_src, 35, 63)
  /\ \E px \in 0..7 : \E py \in 0..7 :
       /\ GetPixel(im_hide.value, px, py) # GetPixel(im_src, px, py)
       /\ GetPixel(im_hide.value, px, py)[2] = U8_MAX

\* ------------------------------------------------------------------------
\* Properties of the hide command
\* ------------------------------------------------------------------------
\* the path of the steganographic image
ImagePath == get_output_file_path(hc_output, hc_quality)

\* the command has returned
Returned == hc_pc[1] = "returned"

\* the command returned the error of a step before the saving of the image
FailedBeforeSave == Returned /\ ~hc_result.ok /\ hc_pc[2] # <<"save">>

\* the image file exists only once the command has returned Ok
ImageOnlyAfterSuccess ==
  ImagePath \in hc_written => (Returned /\ hc_result.ok /\ hc_pc[2] = <<"save">>)

\* C27: in the hide command the output image file is written only after
\* embedding has succeeded; when an earlier step fails (quality outside
\* 1..100, capacity error) the command returns that error and neither the
\* steganographic image file nor any other file is produced
Orig_C27_NoFileOnFailure ==
  /\ ImageOnlyAfterSuccess
  /\ FailedBeforeSave => hc_written = {}

\* C27 as it holds: the image file is written only after embedding has
\* succeeded, and a failure of an earlier step produces no image file; no
\* file at all is produced when the quality check, the loading of the image
\* or the loading of an existing key fails, but a key that had to be
\* generated is saved before encryption and embedding, so after a capacity
\* error exactly that key file is left
Thm_C27_KeyFileBeforeEmbedding ==
  /\ ImageOnlyAfterSuccess
  /\ FailedBeforeSave =>
       /\ ImagePath \notin hc_written
       /\ hc_result.error \in {"InvalidInput", "ImageError", "Base64Error", "IoError"} =>
            hc_written = {}
       /\ hc_result.error = "CapacityError" =>
            hc_written = IF hc_key_file # None /\ hc_key_disk # "absent"
                           THEN {}
                           ELSE {KeyPath(hc_output, hc_key_file)}

\* no key file given, quality 85, a 64 x 64 image: the capacity error is
\* returned and out.key is the one file written
Wit_C27_KeyFileBeforeEmbedding ==
  /\ Returned /\ hc_result = Err("CapacityError")
  /\ hc_key_file = None /\ hc_quality = 85 /\ hc_input = <<"image", 64, 64>>
  /\ hc_output = <<"out">>
  /\ hc_written = {<<"out", ".key">>}

\* ------------------------------------------------------------------------
\* Properties of several calls on one engine
\* ------------------------------------------------------------------------
\* C28: after any sequence of hide and extract calls on one engine, failed
\* ones included, its configuration (block size, position list, strength,
\* minimum step) is what it was, and the result of a call depends on the
\* arguments of that call alone: calls with the same arguments have returned
\* the same result, whatever was called before them
Thm_C28_EngineStateless ==
  /\ eng_config = DefaultConfiguration
  /\ \A a \in im_log : \A b \in im_log :
       (a.call = b.call /\ a.arguments = b.arguments) => a.result = b.result

\* the second call on the engine repeated the arguments of the first, a
\* payload of one byte in the 64 x 40 image, and both hides and both extracts
\* returned the same
Wit_C28_EngineStateless ==
  /\ im_pc = "done" /\ im_calls = 2 /\ im_data = <<115>> /\ ex_expected = None
  /\ Cardinality({e \in im_log : e.call = "hide"}) = 1
  /\ Cardinality({e \in im_log : e.call = "extract"}) = 1
  /\ ex_result = Ok(<<115>>)
  /\ eng_config = DefaultConfiguration

\* ------------------------------------------------------------------------
\* Properties of the header of the repetition code
\* ------------------------------------------------------------------------
\* the blob has the length apply_repetition_encoding gave it, and its header
\* no longer holds the number of bytes that were encoded
HeaderChanged ==
  /\ Len(fec_blob) = 4 + Len(fec_data) * fec_rep
  /\ HeaderHigh(fec_blob) > 0 \/ HeaderLow(fec_blob) # Len(fec_data)

\* C30: the 4-byte header is not protected by the repetition code: when a
\* header byte of a blob from apply_repetition_encoding (r >= 1) is changed,
\* so that the length it holds differs, apply_repetition_decoding returns an
\* error, and so does decrypt_with_error_correction, instead of data
Thm_C30_HeaderUnprotected ==
  (fec_pc = "done" /\ fec_rep >= 1 /\ HeaderChanged) =>
    /\ ~fec_result.ok
    /\ ~decrypt_with_error_correction([i \in 1..ENCRYPTION_KEY_SIZE |-> 0], fec_blob, fec_rep).ok

\* one byte encoded three times, the first header byte changed from 1 to 2,
\* the three copies intact
Wit_C30_HeaderUnprotected ==
  /\ fec_pc = "done" /\ fec_rep = 3 /\ fec_data = <<115>>
  /\ fec_blob = <<2, 0, 0, 0, 115, 115, 115>>
  /\ fec_result = Err("InvalidInput")

====
